---- MODULE Spec2Model ----
(***************************************************************************)
(* Model of flax.nnx.graph: the flatten / unflatten codec of object graphs *)
(* and the UpdateContext split/merge protocol.                             *)
(*                                                                         *)
(* Objects live in a heap (a sequence of records); an object's identity is *)
(* its position in the heap.  Reference maps are functions keyed by that   *)
(* identity.  An Optional value is a sequence: <<>> is None, <<x>> is x.   *)
(***************************************************************************)
EXTENDS Integers, Sequences, FiniteSets, TLC

VARIABLES heap, m, pc, ctx, graphdef, state, node2, node3, err, fuel, refmap, idxmap, twin, fp, before,
          cache, args, outs, ins, GRAPH_CONTEXT, threads, registry

\* the leaf cache, the arguments of the call at hand, what was flattened and
\* what was unflattened for them; the context stacks of each thread and each
\* thread's open scopes; GRAPH_REGISTRY and PYTREE_REGISTRY
callvars == <<cache, args, outs, ins, GRAPH_CONTEXT, threads, registry>>
vars == <<heap, m, pc, ctx, graphdef, state, node2, node3, err, fuel, refmap, idxmap, twin, fp, before, callvars>>

(***************************************************************************)
(* Bounds of the model.                                                    *)
(***************************************************************************)
\* attribute and value assignments made in one run: those that build the
\* original graph plus those applied to the inner copy behind the boundary
MaxSteps == 2

\* the interpreter's recursion limit, scaled to the graphs the bounds allow:
\* deeper than any chain of distinct reachable objects
RecursionLimit == 2 * (MaxSteps + 2)

None == <<>>
Some(x) == <<x>>

\* attribute names of a Graph Node and item positions of a tuple, in sort order
AttrKeys == <<"a", "ref">>
IndexKeys == <<"0", "1", "2", "3">>
AllKeys == IndexKeys \o AttrKeys
KeyRank(k) == CHOOSE i \in 1..Len(AllKeys) : AllKeys[i] = k

\* the values a Variable holds, and the lengths of the tuples built
Vals == {0, 1}
TupleSizes == {1, 2}
StaticVals == {1}
Metas == {"m0"}

(***************************************************************************)
(* Values and objects.                                                     *)
(***************************************************************************)
Ref(i) == [t |-> "ref", id |-> i]
StaticValue(x) == [t |-> "static", value |-> x]

GraphNodeObj(type, attrs) == [kind |-> "graph", type |-> type, attrs |-> attrs]
VariableObj(type, value, metadata) == [kind |-> "var", type |-> type, value |-> value, metadata |-> metadata]
TupleObj(items) == [kind |-> "pytree", type |-> "tuple", items |-> items]

IsRef(v) == v.t = "ref"
is_graph_node(h, v) == IsRef(v) /\ h[v.id].kind = "graph"
is_pytree_node(h, v) == IsRef(v) /\ h[v.id].kind = "pytree"
IsVariable(h, v) == IsRef(v) /\ h[v.id].kind = "var"
\* get_node_impl(x) is not None
is_node(h, v) == is_graph_node(h, v) \/ is_pytree_node(h, v)

SetKey(f, k, v) == (k :> v) @@ f
PopKey(f, k) == [x \in (DOMAIN f) \ {k} |-> f[x]]

\* node_impl.flatten(node): the (key, child) pairs in the type's canonical order
SortedAttrs(attrs) == LET ks == SelectSeq(AttrKeys, LAMBDA k : k \in DOMAIN attrs) IN [i \in 1..Len(ks) |-> <<ks[i], attrs[ks[i]]>>]
EnumerateItems(items) == [i \in 1..Len(items) |-> <<IndexKeys[i], items[i]>>]
node_impl_flatten(obj) == IF obj.kind = "graph" THEN SortedAttrs(obj.attrs) ELSE EnumerateItems(obj.items)
\* the opaque per-type metadata returned next to the pairs
node_impl_metadata(obj) == IF obj.kind = "graph" THEN Some(obj.type) ELSE None

(***************************************************************************)
(* Structure descriptors.                                                  *)
(***************************************************************************)
NodeRef(type, index) == [tag |-> "NodeRef", type |-> type, index |-> index]
VariableDef(type, index, outer_index, metadata) == [tag |-> "VariableDef", type |-> type, index |-> index, outer_index |-> outer_index, metadata |-> metadata]
NodeDef(type, index, outer_index, attributes, metadata) == [tag |-> "NodeDef", type |-> type, index |-> index, outer_index |-> outer_index, attributes |-> attributes, metadata |-> metadata]
Static(value) == [tag |-> "Static", value |-> value]

\* leaves: Variable.to_state(), Variable.raw_value, or the Variable itself
VariableState(var) == [lt |-> "VariableState", type |-> var.type, value |-> var.value, metadata |-> var.metadata]
RawLeaf(var) == [lt |-> "raw", value |-> var.value]
VariableLeaf(id) == [lt |-> "Variable", id |-> id]

(***************************************************************************)
(* Flatten.  The traversal state st = [ref_index, leaves, paths, err] is   *)
(* threaded through the recursion as the code mutates it in place; opts =  *)
(* [ref_outer_index, with_paths, return_variables] are the call's fixed    *)
(* arguments.  err is "" until an exception is raised; a raised exception  *)
(* ends the traversal.                                                     *)
(***************************************************************************)
RECURSIVE _graph_flatten(_, _, _, _, _, _)
RECURSIVE FlattenValues(_, _, _, _, _, _, _, _)

Raise(st, e) == [st EXCEPT !.err = e]

\* RefMap = dict: a key is found by its hash and then by `is` or `==`.  The
\* classes in ByValue define __eq__ and __hash__ by contents; every other
\* class keeps those of object, which are by identity.
ByValue == {"Point"}
SameKey(h, a, b) ==
  a = b \/ (h[a].kind = "graph" /\ h[a].type \in ByValue /\ h[b].kind = "graph" /\ h[a] = h[b])
\* `x in ref_index`
\* (a mutation: no object is ever found in ref_index)
InRefIndex_Never(h, ref_index, id) == FALSE
InRefIndex(h, ref_index, id) ==
  id \in DOMAIN ref_index \/ (h[id].type \in ByValue /\ \E k \in DOMAIN ref_index : SameKey(h, k, id))
\* `ref_index[x]` for an x in ref_index
IndexIn(h, ref_index, id) ==
  IF id \in DOMAIN ref_index THEN ref_index[id] ELSE ref_index[CHOOSE k \in DOMAIN ref_index : SameKey(h, k, id)]
\* `len(ref_index)`: the next free index
\* (a mutation: indices are counted from one)
NextIndex_OffByOne(ref_index) == Cardinality(DOMAIN ref_index) + 1
NextIndex(ref_index) == Cardinality(DOMAIN ref_index)

\* (a mutation: no definition is given an outer index)
OuterIndexOf_None(ref_outer_index, id) == None
\* ref_outer_index.get(obj) when ref_outer_index is given and not empty, else None
OuterIndexOf(ref_outer_index, id) ==
  IF ref_outer_index # None /\ DOMAIN ref_outer_index[1] # {} /\ id \in DOMAIN ref_outer_index[1]
  THEN Some(ref_outer_index[1][id])
  ELSE None

\* the leaf appended for a newly indexed Variable
MakeLeaf(h, id, opts) ==
  IF opts.return_variables THEN VariableLeaf(id)
  ELSE IF ~opts.with_paths THEN RawLeaf(h[id])
  ELSE VariableState(h[id])

\* (a mutation: a Variable is not looked up in ref_index)
FlattenVariable_NoShare(h, id, path, st, opts) ==
  LET variable_index == NextIndex(st.ref_index) IN
  [def |-> VariableDef(h[id].type, variable_index, OuterIndexOf(opts.ref_outer_index, id), h[id].metadata),
   st |-> [st EXCEPT !.leaves = Append(@, MakeLeaf(h, id, opts)),
                     !.paths = IF opts.with_paths THEN Append(@, path) ELSE @,
                     !.ref_index = (id :> variable_index) @@ @]]
\* the Variable branch of the attribute loop
FlattenVariable(h, id, path, st, opts) ==
  IF InRefIndex(h, st.ref_index, id)
  THEN [def |-> NodeRef(h[id].type, IndexIn(h, st.ref_index, id)), st |-> st]
  ELSE LET variable_index == NextIndex(st.ref_index) IN
       [def |-> VariableDef(h[id].type, variable_index, OuterIndexOf(opts.ref_outer_index, id), h[id].metadata),
        st |-> [st EXCEPT !.leaves = Append(@, MakeLeaf(h, id, opts)),
                          !.paths = IF opts.with_paths THEN Append(@, path) ELSE @,
                          !.ref_index = (id :> variable_index) @@ @]]

\* the loop `for key, value in values` of _graph_flatten, from position i
FlattenValues(h, values, i, path, st, opts, depth, attributes) ==
  IF st.err # "" \/ i > Len(values) THEN [attributes |-> attributes, st |-> st]
  ELSE LET key == values[i][1]
           value == values[i][2]
           r == IF is_node(h, value) THEN _graph_flatten(h, value.id, Append(path, key), st, opts, depth + 1)
                ELSE IF IsVariable(h, value) THEN FlattenVariable(h, value.id, Append(path, key), st, opts)
                ELSE IF value.t = "array" THEN [def |-> None, st |-> Raise(st, "ValueError: Arrays leaves are not supported")]
                ELSE [def |-> Static(value.value), st |-> st]
       IN FlattenValues(h, values, i + 1, path, r.st, opts, depth, Append(attributes, <<key, r.def>>))

\* (a mutation: Pytree nodes are cached like graph nodes)
CacheNode_All(st, node, is_graph_node_) ==
  [index |-> NextIndex(st.ref_index), st |-> [st EXCEPT !.ref_index = (node :> NextIndex(@)) @@ @]]
\* `if is_graph_node_: index = len(ref_index); ref_index[node] = index`
\* `else: index = -1`: only graph nodes are cached
CacheNode(st, node, is_graph_node_) ==
  IF is_graph_node_
  THEN [index |-> NextIndex(st.ref_index), st |-> [st EXCEPT !.ref_index = (node :> NextIndex(@)) @@ @]]
  ELSE [index |-> -1, st |-> st]

_graph_flatten(h, node, path, st, opts, depth) ==
  LET is_pytree_node_ == h[node].kind = "pytree"
      is_graph_node_ == h[node].kind = "graph"
  IN IF st.err # "" THEN [def |-> None, st |-> st]
     ELSE IF depth > RecursionLimit THEN [def |-> None, st |-> Raise(st, "RecursionError")]
     ELSE IF ~is_pytree_node_ /\ InRefIndex(h, st.ref_index, node)
     THEN [def |-> NodeRef(h[node].type, IndexIn(h, st.ref_index, node)), st |-> st]
     ELSE LET cached == CacheNode(st, node, is_graph_node_)
              index == cached.index
              r == FlattenValues(h, node_impl_flatten(h[node]), 1, path, cached.st, opts, depth, <<>>)
              outer_index == IF is_graph_node_ THEN OuterIndexOf(opts.ref_outer_index, node) ELSE None
          IN [def |-> NodeDef(h[node].type, index, outer_index, r.attributes, node_impl_metadata(h[node])),
              st |-> r.st]

\* flatten(node, with_paths, return_variables, ref_index, ref_outer_index):
\* the descriptor, the leaves (with their paths when with_paths), the updated
\* ref_index and the exception raised, if any
flatten(h, node, ref_index, ref_outer_index, with_paths, return_variables) ==
  LET opts == [ref_outer_index |-> ref_outer_index, with_paths |-> with_paths, return_variables |-> return_variables]
      st0 == [ref_index |-> ref_index, leaves |-> <<>>, paths |-> <<>>, err |-> ""]
      r == _graph_flatten(h, node, <<>>, st0, opts, 1)
  IN [graphdef |-> r.def, leaves |-> r.st.leaves, paths |-> r.st.paths, ref_index |-> r.st.ref_index, err |-> r.st.err]


(***************************************************************************)
(* State conversions around unflatten.                                     *)
(***************************************************************************)
\* FlatState.from_sorted_keys_values(paths, leaves)
FlatState(paths, leaves) == [form |-> "FlatState", paths |-> paths, leaves |-> leaves]
\* State.from_flat_path(flat_state): a mapping from path to leaf (the nesting
\* of the mapping is the nesting of the paths)
StateFromFlatPath(fs) == [form |-> "State", items |-> {<<fs.paths[i], fs.leaves[i]>> : i \in 1..Len(fs.paths)}]
ListState(leaves) == [form |-> "list", leaves |-> leaves]

\* sorted() of the keys at each level of the nested mapping: the first key on
\* which two paths differ decides
PathBefore(p, q) ==
  LET n == IF Len(p) < Len(q) THEN Len(p) ELSE Len(q)
      d == {i \in 1..n : p[i] # q[i]}
  IN IF d = {} THEN Len(p) < Len(q)
     ELSE LET i == CHOOSE j \in d : \A k \in d : j <= k IN KeyRank(p[i]) < KeyRank(q[i])

SetToSeq(S) == CHOOSE f \in [1..Cardinality(S) -> S] : \A i, j \in 1..Cardinality(S) : i # j => f[i] # f[j]

\* (a mutation: the leaves are taken in descending order of their paths)
_get_sorted_leaves_Reversed(xs) ==
  LET sorted == SortSeq(SetToSeq(xs.items), LAMBDA x, y : PathBefore(y[1], x[1]))
  IN [i \in 1..Len(sorted) |-> sorted[i][2]]
_get_sorted_leaves(xs) ==
  LET sorted == SortSeq(SetToSeq(xs.items), LAMBDA x, y : PathBefore(x[1], y[1]))
  IN [i \in 1..Len(sorted) |-> sorted[i][2]]

\* the deque of leaves unflatten builds from its state argument
LeavesOf(st) ==
  IF st.form = "State" THEN _get_sorted_leaves(st)
  ELSE st.leaves

(***************************************************************************)
(* Unflatten.  The traversal state st = [heap, leaves, index_ref, err]:    *)
(* the heap (objects are created, cleared and initialised), the deque of   *)
(* leaves still to consume, and the index -> object map.                   *)
(***************************************************************************)
RECURSIVE _graph_unflatten(_, _, _, _)
RECURSIVE _get_children(_, _, _, _, _, _)

InMap(f, k) == k \in DOMAIN f
\* (a mutation: no object is ever found in the reuse map)
HasOuterRef_Never(outer_index_outer_ref, outer_index) == FALSE
\* `outer_index_outer_ref is not None and d.outer_index in outer_index_outer_ref`
HasOuterRef(outer_index_outer_ref, outer_index) ==
  outer_index_outer_ref # None /\ outer_index # None /\ InMap(outer_index_outer_ref[1], outer_index[1])

Alloc(h, obj) == Append(h, obj)
\* GraphNodeImpl.create_empty / clear / init
create_empty(metadata) == GraphNodeObj(metadata[1], <<>>)
clear(h, id) == [h EXCEPT ![id].attrs = <<>>]
RECURSIVE UpdateAttrs(_, _, _)
UpdateAttrs(attrs, children, i) == IF i > Len(children) THEN attrs ELSE UpdateAttrs(SetKey(attrs, children[i][1], children[i][2]), children, i + 1)
init(h, id, children) == [h EXCEPT ![id].attrs = UpdateAttrs(@, children, 1)]
\* PytreeNodeImpl.unflatten for tuple
pytree_unflatten(children, metadata) == TupleObj([i \in 1..Len(children) |-> children[i][2]])

\* variable.update_from_state(value) / variable.raw_value = value
\* (a mutation: the reused Variable keeps its old value)
UpdateVariable_Keep(var, leaf) == var
UpdateVariable(var, leaf) ==
  IF leaf.lt = "VariableState" THEN [var EXCEPT !.value = leaf.value, !.metadata = leaf.metadata]
  ELSE [var EXCEPT !.value = leaf.value]
\* value.to_variable() / variabledef.type.from_metadata(value, variabledef.metadata)
NewVariable(variabledef, leaf) ==
  IF leaf.lt = "VariableState" THEN VariableObj(leaf.type, leaf.value, leaf.metadata)
  ELSE VariableObj(variabledef.type, leaf.value, variabledef.metadata)

\* (a mutation: the leaf is taken from the other end)
popleft_Right(leaves) == [value |-> leaves[Len(leaves)], leaves |-> SubSeq(leaves, 1, Len(leaves) - 1)]
\* leaves.popleft(): the leaf taken and the leaves left
popleft(leaves) == [value |-> Head(leaves), leaves |-> Tail(leaves)]

\* the VariableDef branch of _get_children
UnflattenVariable(variabledef, st, outer_index_outer_ref) ==
  IF st.leaves = <<>> THEN [child |-> None, st |-> Raise(st, "ValueError: Not enough leaves to unflatten the graph")]
  ELSE LET popped == popleft(st.leaves)
           value == popped.value
           st1 == [st EXCEPT !.leaves = popped.leaves]
       IN IF HasOuterRef(outer_index_outer_ref, variabledef.outer_index)
          THEN LET variable == outer_index_outer_ref[1][variabledef.outer_index[1]] IN
               IF st.heap[variable].kind # "var"
               THEN [child |-> None, st |-> Raise(st1, "ValueError: Expected a Variable type")]
               ELSE [child |-> Ref(variable),
                     st |-> [st1 EXCEPT !.heap = [@ EXCEPT ![variable] = UpdateVariable(@, value)],
                                        !.index_ref = (variabledef.index :> variable) @@ @]]
          ELSE LET variable == Len(st.heap) + 1 IN
               [child |-> Ref(variable),
                st |-> [st1 EXCEPT !.heap = Alloc(@, NewVariable(variabledef, value)),
                                   !.index_ref = (variabledef.index :> variable) @@ @]]

\* the loop `for key, value in nodedef.attributes` of _get_children, from i
_get_children(attributes, i, st, outer_index_outer_ref, depth, children) ==
  IF st.err # "" \/ i > Len(attributes) THEN [children |-> children, st |-> st]
  ELSE LET key == attributes[i][1]
           value == attributes[i][2]
           r == IF value.tag = "Static" THEN [child |-> StaticValue(value.value), st |-> st]
                ELSE IF value.tag = "NodeRef"
                THEN IF InMap(st.index_ref, value.index)
                     THEN [child |-> Ref(st.index_ref[value.index]), st |-> st]
                     ELSE [child |-> None, st |-> Raise(st, "KeyError")]
                ELSE IF value.tag = "NodeDef"
                THEN LET sub == _graph_unflatten(value, st, outer_index_outer_ref, depth + 1) IN [child |-> sub.node, st |-> sub.st]
                ELSE UnflattenVariable(value, st, outer_index_outer_ref)
       IN _get_children(attributes, i + 1, r.st, outer_index_outer_ref, depth, Append(children, <<key, r.child>>))

\* (a mutation: init is called with the children resolved before the failure)
UnflattenGraphNode_PartialInit(nodedef, st, outer_index_outer_ref, depth) ==
  LET reuse == HasOuterRef(outer_index_outer_ref, nodedef.outer_index)
      node == IF reuse THEN outer_index_outer_ref[1][nodedef.outer_index[1]] ELSE Len(st.heap) + 1
  IN IF reuse /\ st.heap[node].type # nodedef.type
     THEN [node |-> None, st |-> Raise(st, "ValueError: Expected a node of type")]
     ELSE LET h1 == IF reuse THEN clear(st.heap, node) ELSE Alloc(st.heap, create_empty(nodedef.metadata))
              st1 == [st EXCEPT !.heap = h1, !.index_ref = (nodedef.index :> node) @@ @]
              r == _get_children(nodedef.attributes, 1, st1, outer_index_outer_ref, depth, <<>>)
          IN IF r.st.err # ""
             THEN [node |-> None, st |-> [r.st EXCEPT !.heap = init(@, node, SubSeq(r.children, 1, Len(r.children) - 1))]]
             ELSE [node |-> Ref(node), st |-> [r.st EXCEPT !.heap = init(@, node, r.children)]]
\* (a mutation: the reused node is cleared before its type is looked at)
UnflattenGraphNode_ClearFirst(nodedef, st, outer_index_outer_ref, depth) ==
  LET reuse == HasOuterRef(outer_index_outer_ref, nodedef.outer_index)
      node == IF reuse THEN outer_index_outer_ref[1][nodedef.outer_index[1]] ELSE Len(st.heap) + 1
      h1 == IF reuse THEN clear(st.heap, node) ELSE Alloc(st.heap, create_empty(nodedef.metadata))
  IN IF reuse /\ st.heap[node].type # nodedef.type
     THEN [node |-> None, st |-> Raise([st EXCEPT !.heap = h1], "ValueError: Expected a node of type")]
     ELSE LET st1 == [st EXCEPT !.heap = h1, !.index_ref = (nodedef.index :> node) @@ @]
              r == _get_children(nodedef.attributes, 1, st1, outer_index_outer_ref, depth, <<>>)
          IN IF r.st.err # "" THEN [node |-> None, st |-> r.st]
             ELSE [node |-> Ref(node), st |-> [r.st EXCEPT !.heap = init(@, node, r.children)]]
\* (a mutation: the node is put in index_ref after its children are built)
UnflattenGraphNode_RegisterLate(nodedef, st, outer_index_outer_ref, depth) ==
  LET reuse == HasOuterRef(outer_index_outer_ref, nodedef.outer_index)
      node == IF reuse THEN outer_index_outer_ref[1][nodedef.outer_index[1]] ELSE Len(st.heap) + 1
  IN IF reuse /\ st.heap[node].type # nodedef.type
     THEN [node |-> None, st |-> Raise(st, "ValueError: Expected a node of type")]
     ELSE LET h1 == IF reuse THEN clear(st.heap, node) ELSE Alloc(st.heap, create_empty(nodedef.metadata))
              st1 == [st EXCEPT !.heap = h1]
              r == _get_children(nodedef.attributes, 1, st1, outer_index_outer_ref, depth, <<>>)
          IN IF r.st.err # "" THEN [node |-> None, st |-> r.st]
             ELSE [node |-> Ref(node), st |-> [r.st EXCEPT !.heap = init(@, node, r.children),
                                                          !.index_ref = (nodedef.index :> node) @@ @]]
\* the GraphNodeImpl branch: reuse-and-clear or create, register, then fill
UnflattenGraphNode(nodedef, st, outer_index_outer_ref, depth) ==
  LET reuse == HasOuterRef(outer_index_outer_ref, nodedef.outer_index)
      node == IF reuse THEN outer_index_outer_ref[1][nodedef.outer_index[1]] ELSE Len(st.heap) + 1
  IN IF reuse /\ st.heap[node].type # nodedef.type
     THEN [node |-> None, st |-> Raise(st, "ValueError: Expected a node of type")]
     ELSE LET h1 == IF reuse THEN clear(st.heap, node) ELSE Alloc(st.heap, create_empty(nodedef.metadata))
              st1 == [st EXCEPT !.heap = h1, !.index_ref = (nodedef.index :> node) @@ @]
              r == _get_children(nodedef.attributes, 1, st1, outer_index_outer_ref, depth, <<>>)
          IN IF r.st.err # "" THEN [node |-> None, st |-> r.st]
             ELSE [node |-> Ref(node), st |-> [r.st EXCEPT !.heap = init(@, node, r.children)]]

\* (a mutation: the tuple is rebuilt from its first child alone)
UnflattenPytreeNode_FirstChildOnly(nodedef, st, outer_index_outer_ref, depth) ==
  LET r == _get_children(nodedef.attributes, 1, st, outer_index_outer_ref, depth, <<>>)
  IN IF r.st.err # "" THEN [node |-> None, st |-> r.st]
     ELSE [node |-> Ref(Len(r.st.heap) + 1),
           st |-> [r.st EXCEPT !.heap = Alloc(@, pytree_unflatten(SubSeq(r.children, 1, 1), nodedef.metadata))]]
\* the PytreeNodeImpl branch: children first, then the reconstruction function
UnflattenPytreeNode(nodedef, st, outer_index_outer_ref, depth) ==
  LET r == _get_children(nodedef.attributes, 1, st, outer_index_outer_ref, depth, <<>>)
  IN IF r.st.err # "" THEN [node |-> None, st |-> r.st]
     ELSE [node |-> Ref(Len(r.st.heap) + 1),
           st |-> [r.st EXCEPT !.heap = Alloc(@, pytree_unflatten(r.children, nodedef.metadata))]]

\* get_node_impl_for_type(type) is a GraphNodeImpl
IsGraphType(type) == type # "tuple"

\* (a mutation: an index already in index_ref is not looked for)
_graph_unflatten_NoDuplicateCheck(nodedef, st, outer_index_outer_ref, depth) ==
  IF st.err # "" THEN [node |-> None, st |-> st]
  ELSE IF depth > RecursionLimit THEN [node |-> None, st |-> Raise(st, "RecursionError")]
  ELSE IF nodedef.tag = "NodeRef"
  THEN IF InMap(st.index_ref, nodedef.index)
       THEN [node |-> Ref(st.index_ref[nodedef.index]), st |-> st]
       ELSE [node |-> None, st |-> Raise(st, "KeyError")]
  ELSE IF IsGraphType(nodedef.type)
  THEN UnflattenGraphNode(nodedef, st, outer_index_outer_ref, depth)
  ELSE UnflattenPytreeNode(nodedef, st, outer_index_outer_ref, depth)
_graph_unflatten(nodedef, st, outer_index_outer_ref, depth) ==
  IF st.err # "" THEN [node |-> None, st |-> st]
  ELSE IF depth > RecursionLimit THEN [node |-> None, st |-> Raise(st, "RecursionError")]
  ELSE IF nodedef.tag = "NodeRef"
  THEN IF InMap(st.index_ref, nodedef.index)
       THEN [node |-> Ref(st.index_ref[nodedef.index]), st |-> st]
       ELSE [node |-> None, st |-> Raise(st, "KeyError")]
  ELSE IF InMap(st.index_ref, nodedef.index)
  THEN [node |-> None, st |-> Raise(st, "RuntimeError: GraphDef index already used")]
  ELSE IF IsGraphType(nodedef.type)
  THEN UnflattenGraphNode(nodedef, st, outer_index_outer_ref, depth)
  ELSE UnflattenPytreeNode(nodedef, st, outer_index_outer_ref, depth)

\* (a mutation: leaves left over are not looked for)
CheckNoLeavesLeft_Skip(r) == r
\* the check after the traversal: no leaf may be left
CheckNoLeavesLeft(r) ==
  IF r.st.err = "" /\ r.st.leaves # <<>>
  THEN [node |-> None, st |-> Raise(r.st, "ValueError: Incorrect number of leaves")]
  ELSE r

\* unflatten(graphdef, state, index_ref, outer_index_outer_ref): the node (None
\* when an exception was raised), the heap and index_ref as the call left them
unflatten(h, gd, st, index_ref, outer_index_outer_ref) ==
  LET st0 == [heap |-> h, leaves |-> LeavesOf(st), index_ref |-> index_ref, err |-> ""]
      r == CheckNoLeavesLeft(_graph_unflatten(gd, st0, outer_index_outer_ref, 1))
  IN [node |-> r.node, heap |-> r.st.heap, index_ref |-> r.st.index_ref, err |-> r.st.err]


(***************************************************************************)
(* Functional API.                                                         *)
(***************************************************************************)
\* split(node): flatten with a fresh reference map, leaves as a State
split(h, node) ==
  LET r == flatten(h, node, <<>>, None, TRUE, FALSE)
  IN [graphdef |-> r.graphdef, state |-> StateFromFlatPath(FlatState(r.paths, r.leaves)), ref_index |-> r.ref_index, err |-> r.err]

\* merge(graphdef, state): unflatten with a fresh index map and no reuse map
merge(h, gd, st) == unflatten(h, gd, st, <<>>, None)

(***************************************************************************)
(* UpdateContext.                                                          *)
(***************************************************************************)
Range(f) == {f[x] : x \in DOMAIN f}
\* {value: key for key, value in f.items()}
Invert(f) == [v \in Range(f) |-> CHOOSE k \in DOMAIN f : f[k] = v]

UpdateContext == [outer_ref_outer_index |-> None, outer_index_inner_ref |-> None, outer_index_outer_ref |-> None, inner_ref_outer_index |-> None]

\* (a mutation: the inner split leaves the inner maps in place)
flatten_end_KeepInner(c, ref_index) ==
  IF c.outer_ref_outer_index = None
  THEN [c EXCEPT !.outer_ref_outer_index = Some(ref_index), !.outer_index_outer_ref = Some(Invert(ref_index))]
  ELSE c
flatten_end(c, ref_index) ==
  IF c.outer_ref_outer_index = None
  THEN [c EXCEPT !.outer_ref_outer_index = Some(ref_index), !.outer_index_outer_ref = Some(Invert(ref_index))]
  ELSE [c EXCEPT !.outer_index_inner_ref = None, !.inner_ref_outer_index = None]

\* (a mutation: the inverse of index_ref is not built)
unflatten_end_NoInverse(c, index_ref, inner_merge) ==
  IF inner_merge
  THEN [c EXCEPT !.outer_index_inner_ref = Some(index_ref), !.inner_ref_outer_index = Some(<<>>)]
  ELSE c
unflatten_end(c, index_ref, inner_merge) ==
  IF inner_merge
  THEN [c EXCEPT !.outer_index_inner_ref = Some(index_ref), !.inner_ref_outer_index = Some(Invert(index_ref))]
  ELSE c

\* (a mutation: the outer split tags the descriptor with its own indices)
UpdateContext_split_TagOuter(c, h, node) ==
  LET r0 == flatten(h, node, <<>>, None, TRUE, FALSE)
      r == flatten(h, node, <<>>, IF c.inner_ref_outer_index = None THEN Some(r0.ref_index) ELSE c.inner_ref_outer_index, TRUE, FALSE)
  IN [graphdef |-> r.graphdef, state |-> StateFromFlatPath(FlatState(r.paths, r.leaves)), err |-> r.err,
      ctx |-> IF r.err = "" THEN flatten_end(c, r.ref_index) ELSE c]
\* UpdateContext.split(node): the context is advanced only when flatten returned
UpdateContext_split(c, h, node) ==
  LET r == flatten(h, node, <<>>, c.inner_ref_outer_index, TRUE, FALSE)
  IN [graphdef |-> r.graphdef, state |-> StateFromFlatPath(FlatState(r.paths, r.leaves)), err |-> r.err,
      ctx |-> IF r.err = "" THEN flatten_end(c, r.ref_index) ELSE c]

\* (a mutation: merge does not look whether a split has stored a ref_index)
UpdateContext_merge_NoRefIndexCheck(c, h, gd, st) ==
  IF gd.tag # "NodeDef" THEN [node |-> None, heap |-> h, err |-> "ValueError: Expected a NodeDef instance", ctx |-> c]
  ELSE LET index_ref_cache == c.outer_index_outer_ref
           r == unflatten(h, gd, st, <<>>, index_ref_cache)
       IN [node |-> r.node, heap |-> r.heap, err |-> r.err,
           ctx |-> IF r.err = "" THEN unflatten_end(c, r.index_ref, TRUE) ELSE c]
\* UpdateContext.merge(graphdef, state)
UpdateContext_merge(c, h, gd, st) ==
  IF gd.tag # "NodeDef" THEN [node |-> None, heap |-> h, err |-> "ValueError: Expected a NodeDef instance", ctx |-> c]
  ELSE IF c.outer_ref_outer_index = None THEN [node |-> None, heap |-> h, err |-> "ValueError: Cannot merge without ref_index", ctx |-> c]
  ELSE LET index_ref_cache == c.outer_index_outer_ref
           r == unflatten(h, gd, st, <<>>, index_ref_cache)
       IN [node |-> r.node, heap |-> r.heap, err |-> r.err,
           ctx |-> IF r.err = "" THEN unflatten_end(c, r.index_ref, TRUE) ELSE c]

(***************************************************************************)
(* The program: the caller builds a graph m, then either runs the four     *)
(* calls of an update context around a boundary behind which the inner     *)
(* copy is mutated, or clones the graph through flatten and unflatten.     *)
(***************************************************************************)
Children(h, id) ==
  IF h[id].kind = "graph" THEN {h[id].attrs[k].id : k \in {x \in DOMAIN h[id].attrs : IsRef(h[id].attrs[x])}}
  ELSE IF h[id].kind = "pytree" THEN {h[id].items[i].id : i \in {x \in 1..Len(h[id].items) : IsRef(h[id].items[x])}}
  ELSE {}

RECURSIVE ReachFrom(_, _)
ReachFrom(h, S) == LET N == S \cup UNION {Children(h, id) : id \in S} IN IF N = S THEN S ELSE ReachFrom(h, N)
Reach(h, root) == ReachFrom(h, {root})

\* the graph the running code holds: the original before a split, afterwards
\* the inner copy behind the boundary or the clone
Root == IF pc \in {"build", "fingerprinted", "called"} THEN m ELSE node2.id
Mutable == pc \in {"build", "inner", "cloned", "fingerprinted", "called"} /\ fuel > 0
Live == Reach(heap, Root)
LiveNodes == {id \in Live : heap[id].kind = "graph"}
LiveVars == {id \in Live : heap[id].kind = "var"}
\* the original graph is built by adding attributes; a copy may also have an
\* attribute overwritten or removed
Assignable(id, k) == pc = "build" => k \notin DOMAIN heap[id].attrs
Spend == /\ fuel' = fuel - 1
         /\ pc' = IF pc = "cloned" THEN "touched" ELSE IF pc = "fingerprinted" THEN "changed" ELSE pc
         /\ UNCHANGED <<m, ctx, graphdef, state, node2, node3, err, refmap, idxmap, twin, fp, before, callvars>>

\* node.key = value, for a static value, an object at hand, or a new object
SetAttr(id, k, v) == heap' = [heap EXCEPT ![id].attrs = SetKey(@, k, v)]
SetAttrNew(id, k, obj) == heap' = [Alloc(heap, obj) EXCEPT ![id].attrs = SetKey(@, k, Ref(Len(heap) + 1))]

SetStatic ==
  /\ Mutable
  /\ \E id \in LiveNodes, k \in Range(AttrKeys), x \in StaticVals : Assignable(id, k) /\ SetAttr(id, k, StaticValue(x))
  /\ Spend

SetRef ==
  /\ Mutable
  /\ \E id \in LiveNodes, k \in Range(AttrKeys), t \in Live : Assignable(id, k) /\ SetAttr(id, k, Ref(t))
  /\ Spend

NewNode ==
  /\ Mutable
  /\ \E id \in LiveNodes, k \in Range(AttrKeys) : Assignable(id, k) /\ SetAttrNew(id, k, GraphNodeObj("Dict", <<>>))
  /\ Spend

NewVar ==
  /\ Mutable
  /\ \E id \in LiveNodes, k \in Range(AttrKeys), x \in Vals, md \in Metas : Assignable(id, k) /\ SetAttrNew(id, k, VariableObj("Param", x, md))
  /\ Spend

\* node.key = a new graph node whose constructor creates a Variable at "a"
NewModule ==
  /\ Mutable
  /\ \E id \in LiveNodes, k \in Range(AttrKeys), x \in Vals, md \in Metas :
       /\ Assignable(id, k)
       /\ heap' = [heap \o <<VariableObj("Param", x, md), GraphNodeObj("Dict", ("a" :> Ref(Len(heap) + 1)))>>
                      EXCEPT ![id].attrs = SetKey(@, k, Ref(Len(heap) + 2))]
  /\ Spend

TupleItems == {Ref(t) : t \in Live}

NewTuple ==
  /\ Mutable
  /\ \E id \in LiveNodes, k \in Range(AttrKeys), n \in TupleSizes : \E items \in [1..n -> TupleItems] : Assignable(id, k) /\ SetAttrNew(id, k, TupleObj(items))
  /\ Spend

\* variable.value = x
SetValue ==
  /\ Mutable /\ pc # "build"
  /\ \E id \in LiveVars, x \in Vals : x # heap[id].value /\ heap' = [heap EXCEPT ![id].value = x]
  /\ Spend

\* del node.key
DelAttr ==
  /\ Mutable /\ pc # "build"
  /\ \E id \in LiveNodes : \E k \in DOMAIN heap[id].attrs : heap' = [heap EXCEPT ![id].attrs = PopKey(@, k)]
  /\ Spend

Mutate == SetStatic \/ SetRef \/ NewNode \/ NewVar \/ NewModule \/ NewTuple \/ SetValue \/ DelAttr

InitWith(n) ==
  /\ heap = <<GraphNodeObj("Dict", <<>>)>>
  /\ m = 1
  /\ pc = "build"
  /\ ctx = UpdateContext
  /\ graphdef = None
  /\ state = None
  /\ node2 = None
  /\ node3 = None
  /\ err = ""
  /\ fuel = n
  /\ refmap = <<>>
  /\ idxmap = <<>>
  /\ twin = <<>>
  /\ fp = <<>>
  /\ before = <<>>
  /\ cache = <<>>
  /\ args = <<>>
  /\ outs = <<>>
  /\ ins = <<>>
  /\ GRAPH_CONTEXT = <<>>
  /\ threads = <<>>
  /\ registry = <<>>

Init == InitWith(MaxSteps)

\* (1) graphdef, state = ctx.split(m)
OuterSplit ==
  /\ pc = "build"
  /\ \E r \in {UpdateContext_split(ctx, heap, m)} :
       /\ graphdef' = r.graphdef /\ state' = r.state /\ err' = r.err /\ ctx' = r.ctx
       /\ pc' = IF r.err = "" THEN "split1" ELSE "failed"
  /\ UNCHANGED <<heap, m, node2, node3, fuel, refmap, idxmap, twin, fp, before, callvars>>

\* (2) m2 = ctx.merge(graphdef, state); twin remembers which original each
\* object of the inner copy stands for
InnerMerge ==
  /\ pc = "split1"
  /\ \E r \in {UpdateContext_merge(ctx, heap, graphdef, state)} :
       /\ node2' = r.node /\ heap' = r.heap /\ err' = r.err /\ ctx' = r.ctx
       /\ pc' = IF r.err = "" THEN "inner" ELSE "failed"
       /\ twin' = IF r.err = "" THEN [c \in DOMAIN r.ctx.inner_ref_outer_index[1] |-> ctx.outer_index_outer_ref[1][r.ctx.inner_ref_outer_index[1][c]]] ELSE twin
  /\ UNCHANGED <<m, graphdef, state, node3, fuel, refmap, idxmap, fp, before, callvars>>

\* (3) graphdef_out, state_out = ctx.split(m2)
InnerSplit ==
  /\ pc = "inner"
  /\ \E r \in {UpdateContext_split(ctx, heap, node2.id)} :
       /\ graphdef' = r.graphdef /\ state' = r.state /\ err' = r.err /\ ctx' = r.ctx
       /\ pc' = IF r.err = "" THEN "split2" ELSE "failed"
  /\ UNCHANGED <<heap, m, node2, node3, fuel, refmap, idxmap, twin, fp, before, callvars>>

\* (4) m3 = ctx.merge(graphdef_out, state_out)
OuterMerge ==
  /\ pc = "split2"
  /\ \E r \in {UpdateContext_merge(ctx, heap, graphdef, state)} :
       /\ node3' = r.node /\ heap' = r.heap /\ err' = r.err /\ ctx' = r.ctx
       /\ pc' = IF r.err = "" THEN "done" ELSE "failed"
  /\ UNCHANGED <<m, graphdef, state, node2, fuel, refmap, idxmap, twin, fp, before, callvars>>

Next == Mutate \/ OuterSplit \/ InnerMerge \/ InnerSplit \/ OuterMerge

Spec == Init /\ [][Next]_vars

(***************************************************************************)
(* Flatten and unflatten on their own: the caller builds a graph, flattens *)
(* it (split, or flatten with or without paths), and unflattens the result *)
(* with the leaves as they are, with leaves missing, or with one too many. *)
(***************************************************************************)
InitClone == InitWith(MaxSteps)

\* graphdef, state = split(m)
DoSplit ==
  /\ pc = "build"
  /\ \E r \in {split(heap, m)} :
       /\ graphdef' = r.graphdef /\ state' = r.state /\ err' = r.err /\ refmap' = r.ref_index
       /\ pc' = IF r.err = "" THEN "flat" ELSE "failed"
  /\ UNCHANGED <<heap, m, ctx, node2, node3, fuel, idxmap, twin, fp, before, callvars>>

\* graphdef, flat_state = flatten(m, ref_index={}, with_paths=...)
DoFlatten ==
  /\ pc = "build"
  /\ \E with_paths \in BOOLEAN :
       \E r \in {flatten(heap, m, <<>>, None, with_paths, FALSE)} :
         /\ graphdef' = r.graphdef /\ err' = r.err /\ refmap' = r.ref_index
         /\ state' = IF with_paths THEN FlatState(r.paths, r.leaves) ELSE ListState(r.leaves)
         /\ pc' = IF r.err = "" THEN "flat" ELSE "failed"
  /\ UNCHANGED <<heap, m, ctx, node2, node3, fuel, idxmap, twin, fp, before, callvars>>

\* the leaves handed to unflatten: those flatten returned, or (a list) any
\* prefix of them, or one leaf more
GivenStates ==
  IF state.form = "list"
  THEN {ListState(SubSeq(state.leaves, 1, k)) : k \in 0..Len(state.leaves)} \cup {ListState(Append(state.leaves, [lt |-> "raw", value |-> 0]))}
  ELSE {state}

\* node = merge(graphdef, state) after split, else
\* node = unflatten(graphdef, state, index_ref={})
DoUnflatten ==
  /\ pc = "flat"
  /\ \E given \in GivenStates :
       \E r \in {IF given.form = "State" THEN merge(heap, graphdef, given) ELSE unflatten(heap, graphdef, given, <<>>, None)} :
         /\ state' = given
         /\ node2' = r.node /\ heap' = r.heap /\ err' = r.err /\ idxmap' = r.index_ref
         /\ pc' = IF r.err = "" THEN "cloned" ELSE "failed"
  /\ UNCHANGED <<m, ctx, graphdef, node3, fuel, refmap, twin, fp, before, callvars>>

NextClone == Mutate \/ DoSplit \/ DoFlatten \/ DoUnflatten

SpecClone == InitClone /\ [][NextClone]_vars

(***************************************************************************)
(* Reading graphs and descriptors.                                         *)
(***************************************************************************)
Missing == [t |-> "missing"]

\* the value found by following the keys of path p from value v
RECURSIVE ValueAt(_, _, _)
ValueAt(h, v, p) ==
  IF p = <<>> THEN v
  ELSE IF ~IsRef(v) THEN Missing
  ELSE LET o == h[v.id] IN
       IF o.kind = "graph"
       THEN IF Head(p) \in DOMAIN o.attrs THEN ValueAt(h, o.attrs[Head(p)], Tail(p)) ELSE Missing
       ELSE IF o.kind = "pytree"
       THEN IF \E i \in 1..Len(o.items) : IndexKeys[i] = Head(p)
            THEN ValueAt(h, o.items[CHOOSE i \in 1..Len(o.items) : IndexKeys[i] = Head(p)], Tail(p))
            ELSE Missing
       ELSE Missing

KeysOf(obj) ==
  IF obj.kind = "graph" THEN DOMAIN obj.attrs
  ELSE IF obj.kind = "pytree" THEN {IndexKeys[i] : i \in 1..Len(obj.items)}
  ELSE {}

\* the paths of at most n keys that lead from value v to some value
RECURSIVE WalkPaths(_, _, _)
WalkPaths(h, v, n) ==
  IF n = 0 \/ ~IsRef(v) THEN {<<>>}
  ELSE {<<>>} \cup UNION {{<<k>> \o p : p \in WalkPaths(h, ValueAt(h, v, <<k>>), n - 1)} : k \in KeysOf(h[v.id])}

\* long enough to go once around every cycle of a graph within the bounds
MaxDepth == MaxSteps + 2
PathsTo(h, v, id) == {p \in WalkPaths(h, v, MaxDepth) : ValueAt(h, v, p) = Ref(id)}

\* the entries of a descriptor in pre-order, each with its path
RECURSIVE PreOrder(_, _)
RECURSIVE PreOrderAttrs(_, _, _)
PreOrderAttrs(attributes, i, path) ==
  IF i > Len(attributes) THEN <<>>
  ELSE PreOrder(attributes[i][2], Append(path, attributes[i][1])) \o PreOrderAttrs(attributes, i + 1, path)
PreOrder(d, path) ==
  IF d.tag = "NodeDef" THEN <<[path |-> path, d |-> d]>> \o PreOrderAttrs(d.attributes, 1, path)
  ELSE <<[path |-> path, d |-> d]>>
Entries(gd) == PreOrder(gd, <<>>)

IsDefinition(d) == d.tag = "VariableDef" \/ (d.tag = "NodeDef" /\ d.index >= 0)

(***************************************************************************)
(* Properties of the update context protocol (specification Spec).         *)
(***************************************************************************)
\* behind the boundary the inner copy was given a = 1 and ref = itself
InnerHasAttrAndCycle ==
  /\ node2 # None
  /\ DOMAIN heap[node2.id].attrs = {"a", "ref"}
  /\ heap[node2.id].attrs["a"] = StaticValue(1)
  /\ heap[node2.id].attrs["ref"] = node2

\* C1: outer split(m), inner merge, setting a = 1 and ref = the inner copy on
\* the inner copy, inner split and outer merge on one UpdateContext never raise
\* and return the very object m, with m.a = 1 and m.ref being m.
C1_RoundTripReturnsOriginal ==
  /\ pc # "failed"
  /\ (pc = "done" /\ InnerHasAttrAndCycle) =>
       /\ node3 = Ref(m)
       /\ DOMAIN heap[m].attrs = {"a", "ref"}
       /\ heap[m].attrs["a"] = StaticValue(1)
       /\ heap[m].attrs["ref"] = Ref(m)

C1_Witness ==
  /\ pc = "done" /\ InnerHasAttrAndCycle
  /\ twin = (node2.id :> m)
  /\ node3 = Ref(m) /\ heap[m].attrs["ref"] = Ref(m)

\* the Variables of the inner copy that stand for an original Variable and are
\* still part of the inner graph
KeptInnerVars == {c \in DOMAIN twin : heap[c].kind = "var" /\ c \in Reach(heap, node2.id)}

\* C2: after the four calls every original Variable whose inner counterpart is
\* still in the inner graph at inner split is itself, at every path of the
\* counterpart, the Variable of the merged result, and holds the counterpart's
\* value.
C2_InPlaceLeafUpdate ==
  pc = "done" =>
    \A c \in KeptInnerVars :
      /\ heap[twin[c]].kind = "var"
      /\ heap[twin[c]].value = heap[c].value
      /\ \A p \in PathsTo(heap, node2, c) : ValueAt(heap, node3, p) = Ref(twin[c])

C2_Witness ==
  /\ pc = "done"
  /\ \E c \in KeptInnerVars : heap[twin[c]].value = heap[c].value /\ Cardinality(PathsTo(heap, node2, c)) >= 1


(***************************************************************************)
(* Properties of flatten and unflatten (specification SpecClone).          *)
(***************************************************************************)
Original == Ref(m)
OrigPaths == WalkPaths(heap, Original, MaxDepth)
ClonePaths == WalkPaths(heap, node2, MaxDepth)
OrigAt(p) == ValueAt(heap, Original, p)
CloneAt(p) == ValueAt(heap, node2, p)

\* Graph Nodes and Variables are the objects whose identity matters
HasIdentity(h, v) == IsRef(v) /\ h[v.id].kind \in {"graph", "var"}
IdentityObjects(h, root) == {id \in Reach(h, root) : h[id].kind \in {"graph", "var"}}

Cyclic(h, root) == \E id \in Reach(h, root) : id \in ReachFrom(h, Children(h, id))

\* two values look the same without following their references
SameShape(h, v, w) ==
  IF IsRef(v) /\ IsRef(w)
  THEN /\ h[v.id].kind = h[w.id].kind
       /\ h[v.id].type = h[w.id].type
       /\ KeysOf(h[v.id]) = KeysOf(h[w.id])
       /\ h[v.id].kind = "var" => (h[v.id].value = h[w.id].value /\ h[v.id].metadata = h[w.id].metadata)
  ELSE v = w

\* the clone has the structure and the aliasing of the original
SameStructure ==
  /\ OrigPaths = ClonePaths
  /\ \A p \in OrigPaths : SameShape(heap, OrigAt(p), CloneAt(p))
SameAliasing ==
  \A p, q \in OrigPaths :
    (HasIdentity(heap, OrigAt(p)) /\ HasIdentity(heap, OrigAt(q))) => ((OrigAt(p) = OrigAt(q)) <=> (CloneAt(p) = CloneAt(q)))
AllNew == IdentityObjects(heap, node2.id) \cap Reach(heap, m) = {}
OriginalUntouched == \A id \in Reach(heap, m) : heap'[id] = heap[id]

\* C3: for an acyclic graph g the result of unflatten(flatten(g)) has the
\* structure and the aliasing of g, all its Graph Nodes and Variables are new
\* objects, and no mutation of the result changes an object of g.
C3_CloneIsIndependentCopy ==
  /\ []((pc = "cloned" /\ ~Cyclic(heap, m)) => (SameStructure /\ SameAliasing /\ AllNew))
  /\ [][(pc \in {"cloned", "touched"} /\ ~Cyclic(heap, m)) => OriginalUntouched]_vars

C3_Witness ==
  /\ pc = "touched" /\ ~Cyclic(heap, m) /\ state.form = "State"
  /\ \E p \in OrigPaths : /\ IsRef(OrigAt(p)) /\ heap[OrigAt(p).id].kind = "var"
                          /\ IsRef(CloneAt(p)) /\ heap[CloneAt(p).id].kind = "var"
                          /\ heap[OrigAt(p).id].value # heap[CloneAt(p).id].value

\* positions in the descriptor's pre-order: e is Entries(graphdef)
E == Entries(graphdef)
DefsOf(e, idx) == {j \in 1..Len(e) : IsDefinition(e[j].d) /\ e[j].d.index = idx}
RefsOf(e, idx) == {j \in 1..Len(e) : e[j].d.tag = "NodeRef" /\ e[j].d.index = idx}
NodeRefs(e) == {k \in 1..Len(e) : e[k].d.tag = "NodeRef"}
PytreeDefs(e) == {k \in 1..Len(e) : e[k].d.tag = "NodeDef" /\ e[k].d.index = -1}
DefEntries(e) == SelectSeq(e, LAMBDA x : IsDefinition(x.d))
VarDefs(e) == SelectSeq(e, LAMBDA x : x.d.tag = "VariableDef")
IsPrefix(p, q) == Len(p) <= Len(q) /\ SubSeq(q, 1, Len(p)) = p

\* the original graph read along its paths: at is OrigMap
OrigMap == [p \in OrigPaths |-> OrigAt(p)]
PathsOf(at, id) == {p \in DOMAIN at : at[p] = Ref(id)}
SharedObjects(at) == {id \in IdentityObjects(heap, m) : Cardinality(PathsOf(at, id)) >= 2}
NumLeaves(st) == IF st.form = "State" THEN Cardinality(st.items) ELSE Len(st.leaves)

\* one definition, at one of the object's paths, before every NodeRef to it
OneDefinitionFirst(e, at, id) ==
  /\ Cardinality(DefsOf(e, refmap[id])) = 1
  /\ \A j \in DefsOf(e, refmap[id]) : e[j].path \in PathsOf(at, id) /\ \A k \in RefsOf(e, refmap[id]) : j < k
\* a NodeRef with the object's index at each of its other paths
NodeRefAtEveryOtherPath(e, at, id) ==
  \A p \in PathsOf(at, id) : \E k \in DefsOf(e, refmap[id]) \cup RefsOf(e, refmap[id]) : e[k].path = p
\* a NodeRef with the object's index wherever the traversal meets it again;
\* the traversal does not go below a NodeRef, so a path through an object met
\* before has no entry and is covered by that object's NodeRef
NodeRefAtEveryOtherVisit(e, at, id) ==
  /\ \A k \in 1..Len(e) : OrigAt(e[k].path) = Ref(id) => k \in DefsOf(e, refmap[id]) \cup RefsOf(e, refmap[id])
  /\ \A p \in PathsOf(at, id) : \E k \in 1..Len(e) : \/ e[k].path = p
                                                     \/ e[k].d.tag = "NodeRef" /\ IsPrefix(e[k].path, p)
OneLeafPerVariable == pc = "flat" => NumLeaves(state) = Cardinality({id \in Reach(heap, m) : heap[id].kind = "var"})
OneObjectAtAllPaths(at, id) ==
  pc = "cloned" => \A p, q \in PathsOf(at, id) : HasIdentity(heap, CloneAt(p)) /\ CloneAt(p) = CloneAt(q)

\* C4 as stated, on acyclic graphs: an object reachable by two paths has one
\* definition at the first path visited and a NodeRef with the same index at
\* each other path, a shared Variable gives one leaf, and unflatten places one
\* object at all the paths.
C4_NodeRefAtSecondPath ==
  (pc \in {"flat", "cloned"} /\ ~Cyclic(heap, m)) =>
    LET e == E
        at == OrigMap
    IN /\ \A id \in SharedObjects(at) :
            OneDefinitionFirst(e, at, id) /\ NodeRefAtEveryOtherPath(e, at, id) /\ OneObjectAtAllPaths(at, id)
       /\ OneLeafPerVariable

\* C4: an object reachable by two paths has exactly one definition, at the
\* first of its paths the traversal visits, and a NodeRef with the same index
\* at every other position where the traversal meets it (a path that runs
\* through an object met before is not walked again); a shared Variable
\* gives exactly one leaf; unflatten places one object at all the paths.
C4_SharingPreserved ==
  pc \in {"flat", "cloned"} =>
    LET e == E
        at == OrigMap
    IN /\ \A id \in SharedObjects(at) :
            OneDefinitionFirst(e, at, id) /\ NodeRefAtEveryOtherVisit(e, at, id) /\ OneObjectAtAllPaths(at, id)
       /\ OneLeafPerVariable

\* a graph node at two attributes, holding a Variable: the Variable has two
\* paths and no NodeRef
C4_Witness ==
  /\ pc = "cloned" /\ ~Cyclic(heap, m)
  /\ \E id \in SharedObjects(OrigMap) : heap[id].kind = "var" /\ RefsOf(E, refmap[id]) = {}
  /\ \E id \in SharedObjects(OrigMap) : heap[id].kind = "graph" /\ RefsOf(E, refmap[id]) # {}

\* a path that comes back to an object it has already passed
ReturnsTo(p, q) == p # q /\ IsPrefix(p, q) /\ HasIdentity(heap, OrigAt(p)) /\ OrigAt(p) = OrigAt(q)
CyclesPreserved ==
  \A p, q \in OrigPaths : ReturnsTo(p, q) => (HasIdentity(heap, CloneAt(p)) /\ CloneAt(p) = CloneAt(q))
\* a NodeRef below the definition it refers to
RefToAncestor(e, j, k) ==
  /\ j < k /\ IsDefinition(e[j].d) /\ e[k].d.tag = "NodeRef"
  /\ e[j].d.index = e[k].d.index /\ IsPrefix(e[j].path, e[k].path)
HasRefToAncestor(e) == \E k \in NodeRefs(e) : \E j \in 1..(k - 1) : RefToAncestor(e, j, k)

\* C5: flatten and unflatten terminate on a graph with a reference cycle
\* (no recursion without end: the descriptor closes the cycle with a NodeRef
\* to a node above it), and the rebuilt graph has the same cycle.
C5_CyclesTerminate ==
  /\ err # "RecursionError"
  /\ (pc = "flat" /\ Cyclic(heap, m)) => HasRefToAncestor(E)
  /\ (pc = "cloned" /\ Cyclic(heap, m)) => (SameStructure /\ CyclesPreserved)

C5_Witness ==
  /\ pc = "cloned" /\ err = ""
  /\ \E id \in Reach(heap, m) \ {m} : heap[id].kind = "graph" /\ m \in Reach(heap, id)
  /\ \E p, q \in OrigPaths : ReturnsTo(p, q) /\ CloneAt(p) = CloneAt(q)

\* the definitions carry 0, 1, 2, ... in pre-order
IndicesInVisitOrder(defs) == \A i \in 1..Len(defs) : defs[i].d.index = i - 1
\* every definition and every NodeRef carries the index of the object at its
\* path, and a NodeRef comes after the definition with its index
IndexOfObject(e) ==
  \A k \in 1..Len(e) : (IsDefinition(e[k].d) \/ e[k].d.tag = "NodeRef") =>
    /\ HasIdentity(heap, OrigAt(e[k].path))
    /\ refmap[OrigAt(e[k].path).id] = e[k].d.index
    /\ e[k].d.tag = "NodeRef" => \E j \in 1..(k - 1) : IsDefinition(e[j].d) /\ e[j].d.index = e[k].d.index
\* a node has its index before anything below it
ParentBeforeChildren(defs) ==
  \A j, k \in 1..Len(defs) : (j # k /\ IsPrefix(defs[j].path, defs[k].path)) => defs[j].d.index < defs[k].d.index

\* C6: within one flatten call the indices are 0..n-1 in the order of first
\* visit (a node before anything below it), n being the number of distinct
\* Graph Nodes and Variables reached; distinct objects have distinct indices;
\* every later visit of an indexed object is a NodeRef with its index.
C6_IndexAssignment ==
  pc = "flat" =>
    LET e == E
        defs == DefEntries(e)
    IN /\ IndicesInVisitOrder(defs)
       /\ DOMAIN refmap = IdentityObjects(heap, m)
       /\ Len(defs) = Cardinality(DOMAIN refmap)
       /\ Range(refmap) = 0..(Len(defs) - 1)
       /\ \A x, y \in DOMAIN refmap : refmap[x] = refmap[y] => x = y
       /\ IndexOfObject(e)
       /\ ParentBeforeChildren(defs)

C6_Witness ==
  /\ pc = "flat" /\ Len(DefEntries(E)) >= 3 /\ NodeRefs(E) # {} /\ PytreeDefs(E) # {}

\* the leaves and paths flatten returned describe the VariableDefs in order
LeavesInOrder(vds, leaves) ==
  /\ Len(leaves) = Len(vds)
  /\ \A i \in 1..Len(vds) :
       /\ leaves[i].value = heap[OrigAt(vds[i].path).id].value
       /\ state.form = "FlatState" => (Len(state.paths) = Len(vds) /\ state.paths[i] = vds[i].path)
       /\ state.form = "State" => (<<vds[i].path, leaves[i]>> \in state.items /\ Cardinality(state.items) = Len(vds))
\* the Variable unflatten built for the i-th VariableDef holds the i-th leaf
LeavesConsumedInOrder(vds, leaves) ==
  \A i \in 1..Len(vds) :
    /\ IsVariable(heap, CloneAt(vds[i].path))
    /\ heap[CloneAt(vds[i].path).id].value = leaves[i].value

\* C7: the leaf list has one leaf per VariableDef, the i-th leaf being the
\* value of the Variable of the i-th VariableDef in pre-order; with paths,
\* the i-th path is the path of that VariableDef, one path per leaf; and
\* unflatten gives the i-th leaf to the i-th VariableDef.
C7_LeafOrder ==
  /\ pc = "flat" => LeavesInOrder(VarDefs(E), LeavesOf(state))
  /\ pc = "cloned" => LeavesConsumedInOrder(VarDefs(E), LeavesOf(state))

C7_Witness ==
  /\ pc = "cloned" /\ Len(VarDefs(E)) = 2
  /\ LeavesOf(state)[1].value # LeavesOf(state)[2].value
  /\ heap[CloneAt(VarDefs(E)[2].path).id].value = LeavesOf(state)[2].value

PytreeEntries(e) ==
  \A k \in 1..Len(e) :
    /\ is_pytree_node(heap, OrigAt(e[k].path)) <=> (e[k].d.tag = "NodeDef" /\ e[k].d.index = -1)
    /\ is_pytree_node(heap, OrigAt(e[k].path)) => e[k].d.outer_index = None

\* C8: a Pytree Node always gets a NodeDef with index -1 and no outer index,
\* is never in the reference map and never a NodeRef; unflatten never puts
\* one in its index map, and several Pytree Nodes in one graph never raise
\* the duplicate index error.
C8_PytreeOutsideIndexSpace ==
  /\ pc = "flat" => PytreeEntries(E)
  /\ \A id \in DOMAIN refmap : heap[id].kind # "pytree"
  /\ -1 \notin DOMAIN idxmap
  /\ \A i \in DOMAIN idxmap : heap[idxmap[i]].kind # "pytree"
  /\ err # "RuntimeError: GraphDef index already used"

C8_Witness ==
  /\ pc = "cloned"
  /\ Cardinality(PytreeDefs(E)) >= 2
  /\ \E p \in ClonePaths : is_pytree_node(heap, CloneAt(p))

DefinedBefore(e) == \A k \in NodeRefs(e) : \E j \in 1..(k - 1) : IsDefinition(e[j].d) /\ e[j].d.index = e[k].d.index
TargetsFound(e) == \A k \in NodeRefs(e) : e[k].d.index \in DOMAIN idxmap /\ CloneAt(e[k].path) = Ref(idxmap[e[k].d.index])

\* C9: in pre-order every NodeRef comes after the NodeDef or VariableDef
\* with its index, and unflatten, going in the same order, finds the target
\* of every NodeRef in its index map.
C9_NoForwardReferences ==
  /\ pc = "flat" => DefinedBefore(E)
  /\ err # "KeyError"
  /\ pc = "cloned" => TargetsFound(E)

C9_Witness ==
  /\ pc = "cloned"
  /\ HasRefToAncestor(E)
  /\ \E k \in NodeRefs(E) : heap[OrigAt(E[k].path).id].kind = "var"

\* the indices of the definitions that come, in pre-order, before the first
\* VariableDef that gets no leaf when n leaves are given
DefinedBeforeUnfed(e, n) ==
  LET unfed == CHOOSE k \in 1..Len(e) : e[k] = VarDefs(e)[n + 1]
  IN {e[j].d.index : j \in {x \in 1..(unfed - 1) : IsDefinition(e[x].d)}}
NotEnoughLeaves == "ValueError: Not enough leaves to unflatten the graph"
IncorrectLeaves == "ValueError: Incorrect number of leaves"
LeafCountChecked(e, given, expected) ==
  /\ given < expected => (pc = "failed" /\ err = NotEnoughLeaves /\ node2 = None /\ DOMAIN idxmap = DefinedBeforeUnfed(e, given))
  /\ given > expected => (pc = "failed" /\ err = IncorrectLeaves /\ node2 = None)
  /\ pc = "failed" => given # expected

\* C10: unflatten given fewer leaves than the descriptor has VariableDefs
\* raises at the first VariableDef that cannot be fed; given more, it raises
\* once the traversal is over; in both cases no node is returned.
C10_LeafCountMismatch ==
  (pc \in {"cloned", "touched", "failed"} /\ state.form = "list") =>
    LET e == E IN LeafCountChecked(e, Len(state.leaves), Len(VarDefs(e)))

C10_Witness ==
  /\ pc = "failed" /\ err = NotEnoughLeaves /\ node2 = None
  /\ Len(state.leaves) = 1 /\ Len(VarDefs(E)) = 2

(***************************************************************************)
(* flatten and unflatten with their optional maps: flatten tags the        *)
(* definitions with outer indices (ref_outer_index), unflatten reuses the  *)
(* objects of a reuse map (outer_index_outer_ref) and may be handed an     *)
(* index_ref that an earlier unflatten filled.  The descriptor handed to   *)
(* unflatten is the one flatten returned, or that descriptor with the      *)
(* index or the type of one Graph Node NodeDef altered.                    *)
(***************************************************************************)
\* the descriptor d with the entry at path p replaced by new
RECURSIVE EditAt(_, _, _)
EditAt(d, p, new) ==
  IF p = <<>> THEN new
  ELSE [d EXCEPT !.attributes =
          [i \in 1..Len(d.attributes) |->
             IF d.attributes[i][1] = Head(p)
             THEN <<d.attributes[i][1], EditAt(d.attributes[i][2], Tail(p), new)>>
             ELSE d.attributes[i]]]

IsGraphNodeDef(d) == d.tag = "NodeDef" /\ d.index >= 0
\* a NodeDef given the index of another definition
Reindexed(gd) ==
  LET e == Entries(gd) IN
  {EditAt(gd, e[k].path, [e[k].d EXCEPT !.index = e[j].d.index]) :
     k \in {x \in 1..Len(e) : IsGraphNodeDef(e[x].d)},
     j \in {x \in 1..Len(e) : IsDefinition(e[x].d)}} \ {gd}
\* a NodeDef given another node type
Retyped(gd) ==
  LET e == Entries(gd) IN
  {EditAt(gd, e[k].path, [e[k].d EXCEPT !.type = "List", !.metadata = Some("List")]) :
     k \in {x \in 1..Len(e) : IsGraphNodeDef(e[x].d)}}

\* a state with fewer leaves than the descriptor has VariableDefs
Shortened(fs) == {FlatState(SubSeq(fs.paths, 1, n), SubSeq(fs.leaves, 1, n)) : n \in 0..(Len(fs.leaves) - 1)}

\* the reuse map handed to unflatten: index -> object of the flattened graph
ReuseMap == Some(Invert(refmap))

\* graphdef, flat_state = flatten(m, ref_index={}, ref_outer_index=...): the
\* outer indices are those of a flatten of the same graph, or there are none
DoFlattenTagged ==
  /\ pc = "build"
  /\ \E tagged \in BOOLEAN :
       \E base \in {flatten(heap, m, <<>>, None, TRUE, FALSE)} :
         \E r \in {IF tagged THEN flatten(heap, m, <<>>, Some(base.ref_index), TRUE, FALSE) ELSE base} :
           /\ graphdef' = r.graphdef /\ state' = FlatState(r.paths, r.leaves)
           /\ err' = r.err /\ refmap' = r.ref_index
           /\ pc' = IF r.err = "" THEN "tagged" ELSE "failed"
  /\ UNCHANGED <<heap, m, ctx, node2, node3, fuel, idxmap, twin, fp, before, callvars>>

\* the caller hands over a descriptor that is not the one flatten returned,
\* or a state that lacks leaves
Corrupt ==
  /\ pc = "tagged"
  /\ \/ \E gd \in Reindexed(graphdef) \cup Retyped(graphdef) : graphdef' = gd /\ state' = state
     \/ \E st \in Shortened(state) : state' = st /\ graphdef' = graphdef
  /\ pc' = "corrupt"
  /\ UNCHANGED <<heap, m, ctx, node2, node3, err, fuel, refmap, idxmap, twin, fp, before, callvars>>

\* node = unflatten(graphdef, flat_state, index_ref={}, outer_index_outer_ref=...)
DoMerge ==
  /\ pc \in {"tagged", "corrupt"}
  /\ \E r \in {unflatten(heap, graphdef, state, <<>>, ReuseMap)} :
       /\ node2' = r.node /\ heap' = r.heap /\ err' = r.err /\ idxmap' = r.index_ref
       /\ pc' = IF r.err = "" THEN "merged" ELSE "raised"
  /\ UNCHANGED <<m, ctx, graphdef, state, node3, fuel, refmap, twin, fp, before, callvars>>

\* a second unflatten of the descriptor with the index_ref the first one filled
DoMergeAgain ==
  /\ pc = "merged"
  /\ \E r \in {unflatten(heap, graphdef, state, idxmap, ReuseMap)} :
       /\ node2' = r.node /\ heap' = r.heap /\ err' = r.err /\ idxmap' = r.index_ref
       /\ pc' = IF r.err = "" THEN "merged twice" ELSE "raised"
  /\ UNCHANGED <<m, ctx, graphdef, state, node3, fuel, refmap, twin, fp, before, callvars>>

\* the assignments that build the graph
Build == SetStatic \/ SetRef \/ NewNode \/ NewVar \/ NewModule \/ NewTuple

NextReuse == Build \/ DoFlattenTagged \/ Corrupt \/ DoMerge \/ DoMergeAgain

SpecReuse == InitClone /\ [][NextReuse]_vars

(***************************************************************************)
(* Properties of unflatten with a reuse map, a shared index_ref and        *)
(* altered descriptors (specification SpecReuse).                          *)
(***************************************************************************)
DuplicateIndexError == "RuntimeError: GraphDef index already used"
TypeMismatchError == "ValueError: Expected a node of type"

\* the indices index_ref holds when unflatten arrives at entry k
IndicesBefore(e, idx0, k) == DOMAIN idx0 \cup {e[j].d.index : j \in {x \in 1..(k - 1) : IsDefinition(e[x].d)}}
\* entry k is a Graph Node NodeDef whose index index_ref already holds
IsDuplicate(e, idx0, k) == IsGraphNodeDef(e[k].d) /\ e[k].d.index \in IndicesBefore(e, idx0, k)
\* entry k is a NodeDef that reuses an object of another type
IsMismatch(e, h, reuse, k) ==
  /\ IsGraphNodeDef(e[k].d) /\ HasOuterRef(reuse, e[k].d.outer_index)
  /\ h[reuse[1][e[k].d.outer_index[1]]].type # e[k].d.type
\* entry k is a NodeRef to an index index_ref does not hold
IsDangling(e, idx0, k) == e[k].d.tag = "NodeRef" /\ e[k].d.index \notin IndicesBefore(e, idx0, k)
\* unflatten arrives at entry k: no entry before it raises
Arrives(e, idx0, h, reuse, k) ==
  \A j \in 1..(k - 1) : ~IsDuplicate(e, idx0, j) /\ ~IsMismatch(e, h, reuse, j) /\ ~IsDangling(e, idx0, j)
\* the objects unflatten has created (not reused) before it arrives at entry k
CreatedBefore(e, reuse, k) ==
  {j \in 1..(k - 1) :
     \/ IsDefinition(e[j].d) /\ ~HasOuterRef(reuse, e[j].d.outer_index)
     \/ e[j].d.tag = "NodeDef" /\ e[j].d.index = -1 /\ ~IsPrefix(e[j].path, e[k].path)}

\* the index_ref the unflatten of this step starts from
StartIndexRef == IF pc = "merged" THEN idxmap ELSE <<>>
UnflattenStep == pc \in {"tagged", "corrupt", "merged"} /\ pc' \in {"merged", "merged twice", "raised"}

RaisedAtDuplicate(e, idx0, k) ==
  /\ err' = DuplicateIndexError /\ node2' = None
  \* nothing was registered for the definition: index_ref holds what it held
  \* on arrival, and the index still names the object registered before
  /\ DOMAIN idxmap' = IndicesBefore(e, idx0, k)
  /\ e[k].d.index \in DOMAIN idx0 /\ e[k].d.index \notin IndicesBefore(e, <<>>, k)
       => idxmap'[e[k].d.index] = idx0[e[k].d.index]
  \* no object was created for it
  /\ Len(heap') = Len(heap) + Cardinality(CreatedBefore(e, ReuseMap, k))
  \* the object it would have reused was not cleared
  /\ HasOuterRef(ReuseMap, e[k].d.outer_index)
       => LET node == ReuseMap[1][e[k].d.outer_index[1]] IN heap'[node] = heap[node]

\* C11: when unflatten arrives at a Graph Node NodeDef whose index is already
\* in index_ref, registered earlier in the same descriptor or by an earlier
\* unflatten sharing the index_ref, it raises the duplicate index error and
\* has neither created, reused, cleared nor registered an object for it.
C11_DuplicateNodeIndexRaises ==
  [][UnflattenStep =>
       LET e == Entries(graphdef)
           idx0 == StartIndexRef
       IN \A k \in 1..Len(e) :
            IsDuplicate(e, idx0, k) /\ Arrives(e, idx0, heap, ReuseMap, k)
              => RaisedAtDuplicate(e, idx0, k)]_vars

\* a nested definition that would reuse an object repeats an index of its
\* descriptor and the error was raised
C11_Witness ==
  /\ pc = "raised" /\ err = DuplicateIndexError /\ idxmap # <<>>
  /\ LET e == Entries(graphdef) IN
       \E k \in 2..Len(e) :
         /\ IsDuplicate(e, <<>>, k) /\ Arrives(e, <<>>, heap, ReuseMap, k)
         /\ HasOuterRef(ReuseMap, e[k].d.outer_index)

(***************************************************************************)
(* fingerprint.  The tuples of the code are records here: the field kind   *)
(* stands for the length of the tuple and the fields a tuple of that       *)
(* length lacks hold a fixed filler, so that two fingerprints are equal    *)
(* exactly when the tuples are.  id(x) is the position of x on the heap,   *)
(* 0 stands for None.                                                      *)
(***************************************************************************)
\* (id(node), type(node), index): a node found in ref_index or new_ref_index
RefFingerprint(h, node, index) ==
  [kind |-> "ref", id |-> node, type |-> h[node].type, index |-> index, attributes |-> <<>>, metadata |-> None]
\* (id(node) if is_graph_node_ else None, node_impl.type, index, tuple(attributes), metadata)
NodeFingerprint(h, node, is_graph_node_, index, attributes) ==
  [kind |-> "node", id |-> IF is_graph_node_ THEN node ELSE 0, type |-> h[node].type, index |-> index,
   attributes |-> attributes, metadata |-> node_impl_metadata(h[node])]
\* (key, node_fp)
NodeEntry(key, node_fp) ==
  [kind |-> "node", key |-> key, id |-> 0, type |-> "", index |-> -1, metadata |-> "", value |-> 0, fp |-> <<node_fp>>]
\* (key, id(value), type(value), index): a Variable found in one of the maps
SeenVariableEntry(h, key, id, index) ==
  [kind |-> "seen", key |-> key, id |-> id, type |-> h[id].type, index |-> index, metadata |-> "", value |-> 0, fp |-> <<>>]
\* (a mutation: the metadata of a newly indexed Variable is left out)
NewVariableEntry_NoMetadata(h, key, id, index) ==
  [kind |-> "new", key |-> key, id |-> id, type |-> h[id].type, index |-> index, metadata |-> "", value |-> 0, fp |-> <<>>]
\* (a mutation: the value of a newly indexed Variable is part of the entry)
NewVariableEntry_WithValue(h, key, id, index) ==
  [kind |-> "new", key |-> key, id |-> id, type |-> h[id].type, index |-> index, metadata |-> h[id].metadata, value |-> h[id].value, fp |-> <<>>]
\* (key, id(value), type(value), variable_index, tuple(value._var_metadata.items()))
NewVariableEntry(h, key, id, index) ==
  [kind |-> "new", key |-> key, id |-> id, type |-> h[id].type, index |-> index, metadata |-> h[id].metadata, value |-> 0, fp |-> <<>>]
\* (key, value)
StaticEntry(key, value) ==
  [kind |-> "static", key |-> key, id |-> 0, type |-> "", index |-> -1, metadata |-> "", value |-> value, fp |-> <<>>]

\* the Variable branch of the attribute loop of _graph_fingerprint
FingerprintVariable(h, key, id, ref_index, st) ==
  IF InRefIndex(h, ref_index, id) THEN [entry |-> SeenVariableEntry(h, key, id, IndexIn(h, ref_index, id)), st |-> st]
  ELSE IF InRefIndex(h, st.new_ref_index, id) THEN [entry |-> SeenVariableEntry(h, key, id, IndexIn(h, st.new_ref_index, id)), st |-> st]
  ELSE [entry |-> NewVariableEntry(h, key, id, st.next_index),
        st |-> [st EXCEPT !.new_ref_index = (id :> st.next_index) @@ @, !.next_index = @ + 1]]

RECURSIVE _graph_fingerprint(_, _, _, _, _)
RECURSIVE FingerprintValues(_, _, _, _, _, _, _)
\* the loop `for key, value in values` of _graph_fingerprint, from position i
FingerprintValues(h, values, i, ref_index, st, depth, attributes) ==
  IF st.err # "" \/ i > Len(values) THEN [attributes |-> attributes, st |-> st]
  ELSE LET key == values[i][1]
           value == values[i][2]
           r == IF is_node(h, value)
                THEN LET n == _graph_fingerprint(h, value.id, ref_index, st, depth + 1)
                     IN [entry |-> NodeEntry(key, n.fp), st |-> n.st]
                ELSE IF IsVariable(h, value) THEN FingerprintVariable(h, key, value.id, ref_index, st)
                ELSE IF value.t = "array" THEN [entry |-> None, st |-> Raise(st, "ValueError: Arrays leaves are not supported")]
                ELSE [entry |-> StaticEntry(key, value.value), st |-> st]
       IN FingerprintValues(h, values, i + 1, ref_index, r.st, depth, Append(attributes, r.entry))

_graph_fingerprint(h, node, ref_index, st, depth) ==
  LET is_pytree_node_ == h[node].kind = "pytree"
      is_graph_node_ == h[node].kind = "graph"
  IN IF st.err # "" THEN [fp |-> None, st |-> st]
     ELSE IF depth > RecursionLimit THEN [fp |-> None, st |-> Raise(st, "RecursionError")]
     ELSE IF ~is_pytree_node_ /\ InRefIndex(h, ref_index, node)
     THEN [fp |-> RefFingerprint(h, node, IndexIn(h, ref_index, node)), st |-> st]
     ELSE IF ~is_pytree_node_ /\ InRefIndex(h, st.new_ref_index, node)
     THEN [fp |-> RefFingerprint(h, node, IndexIn(h, st.new_ref_index, node)), st |-> st]
     ELSE LET index == IF is_graph_node_ THEN st.next_index ELSE -1
              st1 == IF is_graph_node_
                     THEN [st EXCEPT !.new_ref_index = (node :> st.next_index) @@ @, !.next_index = @ + 1]
                     ELSE st
              r == FingerprintValues(h, node_impl_flatten(h[node]), 1, ref_index, st1, depth, <<>>)
          IN [fp |-> NodeFingerprint(h, node, is_graph_node_, index, r.attributes), st |-> r.st]

\* fingerprint(node, ref_index=..., new_ref_index=...): the fingerprint, the
\* new_ref_index as the call left it and the exception raised, if any
\* (a mutation: the indices of new objects are counted from the new entries alone)
fingerprint_CountNewOnly(h, node, ref_index, new_ref_index) ==
  LET next_index == Cardinality(DOMAIN new_ref_index)
      r == _graph_fingerprint(h, node, ref_index, [new_ref_index |-> new_ref_index, next_index |-> next_index, err |-> ""], 1)
  IN [fp |-> r.fp, new_ref_index |-> r.st.new_ref_index, err |-> r.st.err]
fingerprint(h, node, ref_index, new_ref_index) ==
  LET next_index == Cardinality(DOMAIN ref_index) + Cardinality(DOMAIN new_ref_index)
      r == _graph_fingerprint(h, node, ref_index, [new_ref_index |-> new_ref_index, next_index |-> next_index, err |-> ""], 1)
  IN [fp |-> r.fp, new_ref_index |-> r.st.new_ref_index, err |-> r.st.err]

(***************************************************************************)
(* A graph is fingerprinted, changed once, and fingerprinted again with    *)
(* the same starting ref_index: the ref_index is empty or the one a        *)
(* flatten of a node of the graph has filled (as within one split_context, *)
(* where the arguments flattened before share objects with this one).      *)
(***************************************************************************)
StartingRefIndexes == {<<>>} \cup {flatten(heap, t, <<>>, None, TRUE, FALSE).ref_index : t \in LiveNodes \ {m}}

DoFingerprint ==
  /\ pc = "build"
  /\ \E ref_index \in StartingRefIndexes :
       \E r \in {fingerprint(heap, m, ref_index, <<>>)} :
         /\ fp' = <<r.fp>> /\ err' = r.err /\ refmap' = ref_index
         /\ pc' = IF r.err = "" THEN "fingerprinted" ELSE "failed"
  /\ before' = heap
  /\ fuel' = 1
  /\ UNCHANGED <<heap, m, ctx, graphdef, state, node2, node3, idxmap, twin, callvars>>

\* variable.set_metadata(...): the metadata of a Variable is replaced
SetMetadata ==
  /\ Mutable /\ pc = "fingerprinted"
  /\ \E id \in LiveVars : heap' = [heap EXCEPT ![id].metadata = "m1"]
  /\ Spend

\* node.key = x for another static value x
ChangeStatic ==
  /\ Mutable /\ pc = "fingerprinted"
  /\ \E id \in LiveNodes : \E k \in DOMAIN heap[id].attrs :
       /\ ~IsRef(heap[id].attrs[k])
       /\ SetAttr(id, k, StaticValue(heap[id].attrs[k].value + 1))
  /\ Spend

\* node.key = copy(node.key): a Graph Node or Variable is replaced by a
\* different object with equal contents
ReplaceByCopy ==
  /\ Mutable /\ pc = "fingerprinted"
  /\ \E id \in LiveNodes : \E k \in DOMAIN heap[id].attrs :
       /\ is_graph_node(heap, heap[id].attrs[k]) \/ IsVariable(heap, heap[id].attrs[k])
       /\ SetAttrNew(id, k, heap[heap[id].attrs[k].id])
  /\ Spend

DoFingerprintAgain ==
  /\ pc = "changed"
  /\ \E r \in {fingerprint(heap, m, refmap, <<>>)} :
       /\ fp' = Append(fp, r.fp) /\ err' = r.err
       /\ pc' = IF r.err = "" THEN "fingerprinted twice" ELSE "failed"
  /\ UNCHANGED <<heap, m, ctx, graphdef, state, node2, node3, fuel, refmap, idxmap, twin, before, callvars>>

NextFingerprint == Mutate \/ DoFingerprint \/ SetMetadata \/ ChangeStatic \/ ReplaceByCopy \/ DoFingerprintAgain

SpecFingerprint == InitClone /\ [][NextFingerprint]_vars

(***************************************************************************)
(* Properties of fingerprint (specification SpecFingerprint).              *)
(***************************************************************************)
\* between the two heaps nothing but values of Variables differs
OnlyValuesChanged(h0, h1) ==
  /\ Len(h0) = Len(h1)
  /\ \A id \in 1..Len(h0) :
       IF h0[id].kind = "var" THEN h0[id].type = h1[id].type /\ h0[id].metadata = h1[id].metadata
       ELSE h0[id] = h1[id]
ValueChanged(h0, h1) == \E id \in Reach(h0, m) : h0[id].kind = "var" /\ h0[id].value # h1[id].value

\* C12: two fingerprints of the same graph taken with equal starting
\* reference maps are equal when only values of Variables changed in between.
C12_FingerprintStability ==
  pc = "fingerprinted twice" /\ OnlyValuesChanged(before, heap) => fp[1] = fp[2]

\* the value of a reachable Variable was changed between the fingerprints
C12_Witness ==
  /\ pc = "fingerprinted twice" /\ OnlyValuesChanged(before, heap) /\ ValueChanged(before, heap)
  /\ fp[1] = fp[2]

\* the objects fingerprint walks: it does not descend into a Graph Node that
\* the starting ref_index holds
RECURSIVE WalkFrom(_, _, _)
WalkFrom(h, S, ref_index) ==
  LET N == S \cup UNION {Children(h, id) : id \in S \ DOMAIN ref_index}
  IN IF N = S THEN S ELSE WalkFrom(h, N, ref_index)
Walked(h, root, ref_index) == WalkFrom(h, {root}, ref_index) \ DOMAIN ref_index

AttrAddedOrRemoved(h0, h1, id) == DOMAIN h0[id].attrs # DOMAIN h1[id].attrs
StaticChanged(h0, h1, id) ==
  \E k \in DOMAIN h0[id].attrs \cap DOMAIN h1[id].attrs :
    ~IsRef(h0[id].attrs[k]) /\ ~IsRef(h1[id].attrs[k]) /\ h0[id].attrs[k] # h1[id].attrs[k]
\* an attribute names another Graph Node or Variable with the same contents
ReplacedByEqual(h0, h1, id) ==
  \E k \in DOMAIN h0[id].attrs \cap DOMAIN h1[id].attrs :
    /\ IsRef(h0[id].attrs[k]) /\ IsRef(h1[id].attrs[k]) /\ h0[id].attrs[k] # h1[id].attrs[k]
    /\ h0[h0[id].attrs[k].id].kind \in {"graph", "var"}
    /\ h1[h1[id].attrs[k].id] = h0[h0[id].attrs[k].id]
NodeChanged(h0, h1, id) ==
  h0[id].kind = "graph" /\ (AttrAddedOrRemoved(h0, h1, id) \/ StaticChanged(h0, h1, id) \/ ReplacedByEqual(h0, h1, id))
\* the metadata of a Variable that the fingerprint indexes anew
MetadataChanged(h0, h1, id, ref_index) ==
  h0[id].kind = "var" /\ id \notin DOMAIN ref_index /\ h0[id].metadata # h1[id].metadata

\* (the claim as stated: a change of any reachable node changes the fingerprint)
C13_AnyReachableChange ==
  pc = "fingerprinted twice"
    => \A id \in Reach(before, m) :
         NodeChanged(before, heap, id) \/ MetadataChanged(before, heap, id, refmap) => fp[1] # fp[2]

\* C13: the fingerprint changes when a node the traversal walks (one that is
\* not in the starting ref_index and is reached outside the nodes in it) gets
\* or loses an attribute, has a static value changed or has a Graph Node or
\* Variable replaced by a different object with equal contents, and when the
\* metadata of a newly indexed Variable changes.
C13_FingerprintSensitivity ==
  pc = "fingerprinted twice"
    => \A id \in Walked(before, m, refmap) :
         NodeChanged(before, heap, id) \/ MetadataChanged(before, heap, id, refmap) => fp[1] # fp[2]

\* a walked node below the root had an object replaced by an equal one, with
\* a starting ref_index that is not empty
C13_Witness ==
  /\ pc = "fingerprinted twice" /\ refmap # <<>> /\ fp[1] # fp[2]
  /\ \E id \in Walked(before, m, refmap) : ReplacedByEqual(before, heap, id)

(***************************************************************************)
(* The calls of an update context out of their order: a merge on a context *)
(* on which no split has run, and a second split right after the first.    *)
(***************************************************************************)
\* ctx.merge(graphdef, state) first, with the descriptor and state of split(m)
EarlyMerge ==
  /\ pc = "build"
  /\ \E s \in {split(heap, m)} :
       /\ s.err = ""
       /\ \E r \in {UpdateContext_merge(ctx, heap, s.graphdef, s.state)} :
            /\ node2' = r.node /\ heap' = r.heap /\ err' = r.err /\ ctx' = r.ctx
            /\ pc' = IF r.err = "" THEN "merged early" ELSE "merge rejected"
  /\ UNCHANGED <<m, graphdef, state, node3, fuel, refmap, idxmap, twin, fp, before, callvars>>

\* ctx.split(...) again right after a split, no merge in between
SplitAgain ==
  /\ pc \in {"split1", "split2"}
  /\ \E r \in {UpdateContext_split(ctx, heap, IF pc = "split1" THEN m ELSE node2.id)} :
       /\ graphdef' = r.graphdef /\ state' = r.state /\ err' = r.err /\ ctx' = r.ctx
       /\ pc' = IF r.err = "" THEN "split twice" ELSE "split rejected"
  /\ UNCHANGED <<heap, m, node2, node3, fuel, refmap, idxmap, twin, fp, before, callvars>>

NextMisuse == Next \/ EarlyMerge \/ SplitAgain

SpecMisuse == Init /\ [][NextMisuse]_vars

(***************************************************************************)
(* Properties of the calls out of order (specification SpecMisuse).        *)
(***************************************************************************)
EarlyMergeStep == pc = "build" /\ pc' \in {"merged early", "merge rejected"}

\* C14: merge on a context on which no split has run raises, performs no
\* unflatten (no object is created or changed, no node is returned) and
\* leaves the four maps of the context as they were, None.
C14_MergeBeforeSplitRejected ==
  [][EarlyMergeStep =>
       /\ err' = "ValueError: Cannot merge without ref_index" /\ pc' = "merge rejected"
       /\ node2' = None /\ heap' = heap
       /\ ctx' = ctx /\ ctx' = UpdateContext]_vars

\* the merge of a graph that holds a Variable was rejected
C14_Witness ==
  /\ pc = "merge rejected" /\ err = "ValueError: Cannot merge without ref_index"
  /\ \E id \in Reach(heap, m) : heap[id].kind = "var"

\* C15 (the claim as stated): a second split in a row, with no merge in
\* between, is reported as an error and not accepted as the inner split.
C15_SplitTwiceRejected ==
  pc \in {"split twice", "split rejected"} => pc = "split rejected" /\ err # ""

(***************************************************************************)
(* Properties of the maps of the update context (specification Spec).      *)
(***************************************************************************)
\* ref_index (object -> index) and index_ref (index -> object) are inverses
\* of each other, with the same number of entries
MutualInverses(ref_index, index_ref) ==
  /\ DOMAIN index_ref = Range(ref_index) /\ DOMAIN ref_index = Range(index_ref)
  /\ \A obj \in DOMAIN ref_index : index_ref[ref_index[obj]] = obj
  /\ \A index \in DOMAIN index_ref : ref_index[index_ref[index]] = index
  /\ Cardinality(DOMAIN ref_index) = Cardinality(DOMAIN index_ref)

\* after outer split the outer pair is the ref_index of that flatten and its inverse
OuterPairRecorded ==
  pc = "split1" =>
    /\ ctx.outer_ref_outer_index = Some(flatten(heap, m, <<>>, None, TRUE, FALSE).ref_index)
    /\ ctx.outer_index_outer_ref # None
\* whenever a pair is held, its two maps are inverses of each other
PairsAreInverses ==
  /\ ctx.outer_ref_outer_index # None \/ ctx.outer_index_outer_ref # None
       => /\ ctx.outer_ref_outer_index # None /\ ctx.outer_index_outer_ref # None
          /\ MutualInverses(ctx.outer_ref_outer_index[1], ctx.outer_index_outer_ref[1])
  /\ ctx.inner_ref_outer_index # None \/ ctx.outer_index_inner_ref # None
       => /\ ctx.inner_ref_outer_index # None /\ ctx.outer_index_inner_ref # None
          /\ MutualInverses(ctx.inner_ref_outer_index[1], ctx.outer_index_inner_ref[1])
\* after inner merge the inner pair is the index_ref of that unflatten and its
\* inverse: each definition's index names the inner object at the definition's
\* path, and that object stands for the original at the same path
InnerPairRecorded ==
  pc = "split1" /\ pc' = "inner" =>
    /\ ctx'.outer_index_inner_ref = Some(unflatten(heap, graphdef, state, <<>>, ctx.outer_index_outer_ref).index_ref)
    /\ ctx'.inner_ref_outer_index # None
    /\ LET e == Entries(graphdef) IN
         \A k \in 1..Len(e) : IsDefinition(e[k].d) =>
           LET inner == ValueAt(heap', node2', e[k].path).id
               outer == ValueAt(heap, Ref(m), e[k].path).id
           IN /\ ctx'.outer_index_inner_ref[1][e[k].d.index] = inner
              /\ ctx'.inner_ref_outer_index[1][inner] = ctx.outer_ref_outer_index[1][outer]
              /\ twin'[inner] = outer

\* C16: outer split leaves in the context the ref_index of its traversal and
\* the exact inverse of it, inner merge the index_ref of its reconstruction
\* and the exact inverse of it; each pair is a bijection between objects and
\* indices with the same number of entries on both sides.
C16_RecordedMapsAreInverses ==
  /\ [](OuterPairRecorded /\ PairsAreInverses)
  /\ [][InnerPairRecorded]_vars

\* the inner pair was recorded for a graph with a shared or cyclic object and
\* a Variable
C16_Witness ==
  /\ pc = "inner" /\ ctx.inner_ref_outer_index # None
  /\ Cardinality(DOMAIN ctx.inner_ref_outer_index[1]) >= 3
  /\ NodeRefs(Entries(graphdef)) # {}
  /\ \E id \in DOMAIN ctx.inner_ref_outer_index[1] : heap[id].kind = "var"

\* the outer index a definition of the inner split must carry: the index the
\* outer split gave to the original that the object at its path stands for,
\* None for an object made behind the boundary
ExpectedOuterIndex(obj) ==
  IF obj \in DOMAIN twin THEN Some(ctx.outer_ref_outer_index[1][twin[obj]]) ELSE None

\* C17: in the descriptor of the inner split every NodeDef and VariableDef of
\* an object that the inner merge produced carries the index its original got
\* at outer split as outer_index; definitions of objects created behind the
\* boundary carry None.
C17_InnerSplitTagging ==
  pc = "split2" =>
    LET e == Entries(graphdef) IN
    \A k \in 1..Len(e) : e[k].d.tag \in {"NodeDef", "VariableDef"} =>
      e[k].d.outer_index = ExpectedOuterIndex(ValueAt(heap, node2, e[k].path).id)

\* the inner split met objects of the inner merge, a Variable among them, and
\* an object created behind the boundary
C17_Witness ==
  /\ pc = "split2"
  /\ LET e == Entries(graphdef) IN
       /\ \E k \in 2..Len(e) : e[k].d.tag = "VariableDef" /\ e[k].d.outer_index # None
       /\ \E k \in 1..Len(e) : IsDefinition(e[k].d) /\ e[k].d.outer_index = None

InnerSplitStep == pc = "inner" /\ pc' = "split2"

\* C18: when the inner split (the second split on the context) has completed,
\* outer_index_inner_ref and inner_ref_outer_index are None and the outer
\* maps recorded at outer split are what they were.
C18_InnerMapsClearedByInnerSplit ==
  /\ [](pc = "split2" => ctx.outer_index_inner_ref = None /\ ctx.inner_ref_outer_index = None)
  /\ [][InnerSplitStep =>
          /\ ctx.outer_index_inner_ref # None /\ ctx.inner_ref_outer_index # None
          /\ ctx'.outer_index_inner_ref = None /\ ctx'.inner_ref_outer_index = None
          /\ ctx'.outer_ref_outer_index = ctx.outer_ref_outer_index /\ ctx.outer_ref_outer_index # None
          /\ ctx'.outer_index_outer_ref = ctx.outer_index_outer_ref /\ ctx.outer_index_outer_ref # None]_vars

\* the inner split of a graph of several objects has completed
C18_Witness ==
  /\ pc = "split2" /\ ctx.outer_index_inner_ref = None /\ ctx.inner_ref_outer_index = None
  /\ ctx.outer_ref_outer_index # None /\ Cardinality(DOMAIN ctx.outer_ref_outer_index[1]) >= 2

\* C19 (the claim as stated): when the outer merge has completed and the
\* context is still active, outer_ref_outer_index and outer_index_outer_ref
\* are cleared.
C19_OuterMapsClearedByOuterMerge ==
  pc = "done" => ctx.outer_ref_outer_index = None /\ ctx.outer_index_outer_ref = None

RaisedAtMismatch(e, k) ==
  LET node == ReuseMap[1][e[k].d.outer_index[1]] IN
  /\ err' = TypeMismatchError /\ node2' = None
  \* the object is as it was: not cleared, not initialised again
  /\ heap'[node] = heap[node]
  \* and index_ref does not hold it
  /\ e[k].d.index \notin DOMAIN idxmap'
  /\ \A index \in DOMAIN idxmap' : idxmap'[index] # node

\* C20: when unflatten arrives at a Graph Node NodeDef whose outer_index names
\* an object of the reuse map of another type than the NodeDef's, it raises
\* the type mismatch error; the object is neither cleared nor initialised
\* again, and it is not registered in index_ref.
C20_TypeMismatchOnReuse ==
  [][UnflattenStep =>
       LET e == Entries(graphdef)
           idx0 == StartIndexRef
       IN \A k \in 1..Len(e) :
            /\ IsMismatch(e, heap, ReuseMap, k) /\ ~IsDuplicate(e, idx0, k)
            /\ Arrives(e, idx0, heap, ReuseMap, k)
            => RaisedAtMismatch(e, k)]_vars

\* the error was raised for a nested node that holds attributes
C20_Witness ==
  /\ pc = "raised" /\ err = TypeMismatchError
  /\ LET e == Entries(graphdef) IN
       \E k \in 2..Len(e) :
         /\ IsMismatch(e, heap, ReuseMap, k) /\ Arrives(e, <<>>, heap, ReuseMap, k)
         /\ heap[ReuseMap[1][e[k].d.outer_index[1]]].attrs # <<>>

\* entry k is a VariableDef for which no leaf is left
IsUnfed(e, leaves, k) ==
  e[k].d.tag = "VariableDef" /\ Cardinality({j \in 1..k : e[j].d.tag = "VariableDef"}) > Len(leaves)
Fails(e, idx0, h, reuse, leaves, k) ==
  IsDuplicate(e, idx0, k) \/ IsMismatch(e, h, reuse, k) \/ IsDangling(e, idx0, k) \/ IsUnfed(e, leaves, k)
\* the entries at which unflatten raises: the first one that fails
FirstFailure(e, idx0, h, reuse, leaves) ==
  {k \in 1..Len(e) : Fails(e, idx0, h, reuse, leaves, k) /\ \A j \in 1..(k - 1) : ~Fails(e, idx0, h, reuse, leaves, j)}
AttributeKeys(d) == {d.attributes[i][1] : i \in 1..Len(d.attributes)}

\* the reused node of entry j after an unflatten that raised at entry f
ReusedNodeAfterFailure(e, j, f) ==
  LET node == ReuseMap[1][e[j].d.outer_index[1]] IN
  IF j < f /\ IsPrefix(e[j].path, e[f].path)
  \* the failure is among its children: cleared, init not called
  THEN heap'[node].attrs = <<>>
  ELSE IF j < f
  \* its children were resolved before the failure: init with all of them
  THEN DOMAIN heap'[node].attrs = AttributeKeys(e[j].d)
  \* not arrived at: as it was
  ELSE heap'[node] = heap[node]

\* C21: when unflatten raises while it resolves the children of a reused
\* Graph Node, that node is left cleared, with no children; no reused node
\* holds a mix of old and new children (a node is as it was, cleared, or
\* initialised with all the children of its definition).
C21_NonTransactionalReuse ==
  [][UnflattenStep /\ err' # "" =>
       LET e == Entries(graphdef)
           failure == FirstFailure(e, StartIndexRef, heap, ReuseMap, LeavesOf(state))
       IN failure # {} /\ \A f \in failure :
            \A j \in 1..Len(e) :
              IsGraphNodeDef(e[j].d) /\ HasOuterRef(ReuseMap, e[j].d.outer_index)
              /\ ~IsMismatch(e, heap, ReuseMap, j)
                => ReusedNodeAfterFailure(e, j, f)]_vars

\* the leaves ran out below the reused root, which had children, after a
\* reused sibling node had been initialised again
C21_Witness ==
  /\ pc = "raised" /\ err = "ValueError: Not enough leaves to unflatten the graph"
  /\ graphdef.outer_index # None /\ heap[m].attrs = <<>>
  /\ \E id \in DOMAIN refmap : id # m /\ heap[id].kind = "graph" /\ heap[id].attrs # <<>>

(***************************************************************************)
(* SplitContext.flatten with a leaf cache, and calls that flatten their    *)
(* arguments in one split context and unflatten them in one merge context. *)
(***************************************************************************)
RECURSIVE with_same_outer_index(_)
\* NodeDef.with_same_outer_index / VariableDef.with_same_outer_index
with_same_outer_index(d) ==
  IF d.tag = "VariableDef" THEN [d EXCEPT !.outer_index = Some(d.index)]
  ELSE IF d.tag = "NodeDef"
  THEN [d EXCEPT !.outer_index = IF d.index >= 0 THEN Some(d.index) ELSE None,
                 !.attributes = [i \in 1..Len(d.attributes) |-> <<d.attributes[i][1], with_same_outer_index(d.attributes[i][2])>>]]
  ELSE d

\* CacheContext.create(fingerprint, graphdef, paths, variables, new_ref_index)
CacheContext_create(fingerprint_, graphdef_, paths, variables, new_ref_index) ==
  [fingerprint |-> fingerprint_, graphdef |-> graphdef_, final_graphdef |-> with_same_outer_index(graphdef_),
   paths |-> paths, variables |-> variables, new_ref_index |-> new_ref_index, new_index_ref |-> Invert(new_ref_index)]

\* (a mutation: the leaves of a cache hit are those stored with the entry)
ReadLeaves_Stored(h, variables, with_paths) ==
  [i \in 1..Len(variables) |-> IF with_paths THEN VariableState(variables[i].stored) ELSE RawLeaf(variables[i].stored)]
\* [variable.to_state() for variable in variables] when with_paths, else
\* [variable.raw_value for variable in variables]
ReadLeaves(h, variables, with_paths) ==
  [i \in 1..Len(variables) |-> IF with_paths THEN VariableState(h[variables[i].id]) ELSE RawLeaf(h[variables[i].id])]

\* the Variable objects flatten returned with return_variables=True; stored
\* is what each held at that time
CachedVariables(h, leaves) == [i \in 1..Len(leaves) |-> [id |-> leaves[i].id, stored |-> h[leaves[i].id]]]

\* (a mutation: a cache hit does not add the new references to ref_index)
FoldReferences_Skip(ref_index, new_ref_index) == ref_index
\* self.ref_index.update(new_ref_index)
FoldReferences(ref_index, new_ref_index) == new_ref_index @@ ref_index

\* (a mutation: a changed node keeps its old cache entry)
StoreEntry_KeepOld(cache_context, node, entry) ==
  IF node \in DOMAIN cache_context THEN cache_context ELSE (node :> entry) @@ cache_context
\* cache_context[node] = CacheContext.create(...)
StoreEntry(cache_context, node, entry) == (node :> entry) @@ cache_context

\* SplitContext.flatten(node, with_paths=..., cache_context=...): maybe_flatten
\* and the state built from its result; ref_index is self.ref_index
SplitContext_flatten(h, node, ref_index, ref_outer_index, with_paths, cache_context) ==
  IF cache_context = None
  THEN LET r == flatten(h, node, ref_index, ref_outer_index, with_paths, FALSE)
       IN [graphdef |-> r.graphdef, state |-> IF with_paths THEN FlatState(r.paths, r.leaves) ELSE ListState(r.leaves),
           ref_index |-> r.ref_index, cache |-> cache_context, hit |-> FALSE, err |-> r.err]
  ELSE LET f == fingerprint(h, node, ref_index, <<>>) IN
       IF f.err # ""
       THEN [graphdef |-> None, state |-> None, ref_index |-> ref_index, cache |-> cache_context, hit |-> FALSE, err |-> f.err]
       ELSE IF node \in DOMAIN cache_context[1] /\ cache_context[1][node].fingerprint = f.fp
       THEN LET node_cache == cache_context[1][node]
                leaves == ReadLeaves(h, node_cache.variables, with_paths)
            IN [graphdef |-> node_cache.graphdef,
                state |-> IF with_paths THEN FlatState(node_cache.paths, leaves) ELSE ListState(leaves),
                ref_index |-> FoldReferences(ref_index, f.new_ref_index), cache |-> cache_context, hit |-> TRUE, err |-> ""]
       ELSE LET r == flatten(h, node, ref_index, ref_outer_index, TRUE, TRUE)
                variables == CachedVariables(h, r.leaves)
                leaves == ReadLeaves(h, variables, with_paths)
            IN [graphdef |-> r.graphdef,
                state |-> IF with_paths THEN FlatState(r.paths, leaves) ELSE ListState(leaves),
                ref_index |-> r.ref_index,
                cache |-> IF r.err = ""
                          THEN Some(StoreEntry(cache_context[1], node, CacheContext_create(f.fp, r.graphdef, r.paths, variables, f.new_ref_index)))
                          ELSE cache_context,
                hit |-> FALSE, err |-> r.err]

\* a call with the arguments (t, m), t a node of the graph of m: a split
\* context with an empty ref_index and a merge context with an empty
\* index_ref are opened; a second call follows the first on the same cache
Call ==
  /\ pc \in {"build", "called"}
  /\ pc = "called" => ~args.again
  /\ \E t \in LiveNodes, with_paths \in BOOLEAN, cached \in BOOLEAN :
       /\ args' = [nodes |-> <<t, m>>, with_paths |-> with_paths, cached |-> cached,
                   again |-> pc = "called"]
       /\ pc = "called" => cached = args.cached
  /\ refmap' = <<>> /\ idxmap' = <<>> /\ outs' = <<>> /\ ins' = <<>>
  /\ pc' = "flattening"
  /\ UNCHANGED <<heap, m, ctx, graphdef, state, node2, node3, err, fuel, twin, fp, before, cache, GRAPH_CONTEXT, threads, registry>>

\* the next argument is flattened: split_ctx.flatten(arg, with_paths=...,
\* cache_context=...)
FlattenArg ==
  /\ pc = "flattening" /\ Len(outs) < Len(args.nodes)
  /\ \E r \in {SplitContext_flatten(heap, args.nodes[Len(outs) + 1], refmap, None, args.with_paths,
                                    IF args.cached THEN Some(cache) ELSE None)} :
       /\ outs' = Append(outs, [graphdef |-> r.graphdef, state |-> r.state, hit |-> r.hit])
       /\ refmap' = r.ref_index /\ err' = r.err
       /\ cache' = IF args.cached THEN r.cache[1] ELSE cache
       /\ pc' = IF r.err = "" THEN "flattening" ELSE "failed"
  /\ UNCHANGED <<heap, m, ctx, graphdef, state, node2, node3, fuel, idxmap, twin, fp, before, args, ins, GRAPH_CONTEXT, threads, registry>>

\* (a mutation: every descriptor is unflattened with an index map of its own)
MergeContext_merge_OwnIndexRef(h, graphdef_, state_, index_ref, outer_index_outer_ref) ==
  unflatten(h, graphdef_, state_, <<>>, outer_index_outer_ref)
\* MergeContext.merge: unflatten with index_ref=self.index_ref and
\* outer_index_outer_ref=ctx and ctx.outer_index_outer_ref
MergeContext_merge(h, graphdef_, state_, index_ref, outer_index_outer_ref) ==
  unflatten(h, graphdef_, state_, index_ref, outer_index_outer_ref)

\* the next result is unflattened with the index_ref of the merge context,
\* outside any update context
MergeArg ==
  /\ pc = "flattening" /\ Len(outs) = Len(args.nodes) /\ Len(ins) < Len(outs)
  /\ \E r \in {MergeContext_merge(heap, outs[Len(ins) + 1].graphdef, outs[Len(ins) + 1].state, idxmap, None)} :
       /\ ins' = Append(ins, r.node) /\ heap' = r.heap /\ idxmap' = r.index_ref /\ err' = r.err
       /\ pc' = IF r.err = "" THEN "flattening" ELSE "failed"
  /\ UNCHANGED <<m, ctx, graphdef, state, node2, node3, fuel, refmap, twin, fp, before, cache, args, outs, GRAPH_CONTEXT, threads, registry>>

\* both contexts are left
Return ==
  /\ pc = "flattening" /\ Len(ins) = Len(args.nodes)
  /\ pc' = "called"
  /\ UNCHANGED <<heap, m, ctx, graphdef, state, node2, node3, err, fuel, refmap, idxmap, twin, fp, before, callvars>>

NextCalls == Mutate \/ Call \/ FlattenArg \/ MergeArg \/ Return

SpecCalls == Init /\ [][NextCalls]_vars

\* the argument FlattenArg flattens, and whether the cache holds an entry
\* for it whose fingerprint is the one the node has now
NextArg == args.nodes[Len(outs) + 1]
Fresh == fingerprint(heap, NextArg, refmap, <<>>)
CacheHit == args.cached /\ NextArg \in DOMAIN cache /\ Fresh.err = "" /\ cache[NextArg].fingerprint = Fresh.fp
HeldNow(variables) ==
  [i \in 1..Len(variables) |-> IF args.with_paths THEN VariableState(heap[variables[i].id]) ELSE RawLeaf(heap[variables[i].id])]

\* C22: when the cache holds an entry for the node and the node's fresh
\* fingerprint equals the stored one, SplitContext.flatten returns the stored
\* descriptor, leaves the entry as it is, and returns as leaves the values the
\* cached Variable objects hold at the time of this call.
C22_LeafCacheHit ==
  [][FlattenArg /\ CacheHit =>
       LET out == outs'[Len(outs')]
           entry == cache[NextArg]
       IN /\ err' = "" /\ out.hit
          /\ out.graphdef = entry.graphdef
          /\ cache' = cache
          /\ LeavesOf(out.state) = HeldNow(entry.variables)
          /\ args.with_paths => out.state.paths = entry.paths]_vars

\* the second call hits the cache for a node one of whose cached Variables
\* was given another value after the entry was stored
C22_Witness ==
  /\ pc = "flattening" /\ args.cached /\ args.again /\ Len(outs) > 0 /\ outs[1].hit
  /\ \E i \in 1..Len(cache[args.nodes[1]].variables) :
       LET v == cache[args.nodes[1]].variables[i]
       IN heap[v.id].value # v.stored.value /\ LeavesOf(outs[1].state)[i].value = heap[v.id].value

\* the objects at the paths of a cache entry are its Variable objects
VariablesAtPaths(h, node, entry) ==
  /\ Len(entry.variables) = Len(entry.paths)
  /\ \A i \in 1..Len(entry.paths) : ValueAt(h, Ref(node), entry.paths[i]) = Ref(entry.variables[i].id)
\* every entry of descriptor gd of node whose object ref_index held before
\* the call is a NodeRef with the index ref_index gives the object
SharedAreNodeRefs(h, node, gd, ref_index) ==
  LET e == Entries(gd)
  IN \A j \in 1..Len(e) :
       LET v == ValueAt(h, Ref(node), e[j].path)
       IN HasIdentity(h, v) /\ v.id \in DOMAIN ref_index => e[j].d = NodeRef(h[v.id].type, ref_index[v.id])

\* C23: when the cache holds no entry for the node, or the node's fresh
\* fingerprint differs from the stored one, SplitContext.flatten does a full
\* flatten and stores an entry with the new fingerprint, descriptor, paths and
\* Variable objects; after every flatten with a cache, hit or miss, the
\* context's reference map holds every Graph Node and Variable reachable from
\* the node, and a node flattened next in the same context gets NodeRefs for
\* the objects it shares with the earlier one.
C23_LeafCacheMissAndFolding ==
  [][FlattenArg /\ args.cached /\ err' = "" =>
       LET out == outs'[Len(outs')]
           full == flatten(heap, NextArg, refmap, None, TRUE, TRUE)
       IN /\ ~CacheHit =>
               /\ ~out.hit /\ out.graphdef = full.graphdef
               /\ DOMAIN cache' = DOMAIN cache \cup {NextArg}
               /\ \A n \in DOMAIN cache \ {NextArg} : cache'[n] = cache[n]
               /\ cache'[NextArg].fingerprint = Fresh.fp
               /\ cache'[NextArg].graphdef = full.graphdef
               /\ cache'[NextArg].paths = full.paths
               /\ VariablesAtPaths(heap, NextArg, cache'[NextArg])
          /\ IdentityObjects(heap, NextArg) \subseteq DOMAIN refmap'
          /\ \A id \in DOMAIN refmap : refmap'[id] = refmap[id]
          /\ SharedAreNodeRefs(heap, NextArg, out.graphdef, refmap)]_vars

\* in the second call the first argument, changed since its entry was stored,
\* missed the cache, and the descriptor of the second argument holds a
\* NodeRef to it
C23_Witness ==
  /\ pc = "flattening" /\ args.cached /\ args.again /\ Len(outs) = 2 /\ ~outs[1].hit
  /\ args.nodes[1] # m /\ outs[2].graphdef.tag = "NodeDef"
  /\ cache[args.nodes[1]].graphdef = outs[1].graphdef
  /\ \E j \in NodeRefs(Entries(outs[2].graphdef)) : Entries(outs[2].graphdef)[j].d.index = refmap[args.nodes[1]]

\* the two arguments of the call and what was unflattened for them
ArgPaths(i) == WalkPaths(heap, Ref(args.nodes[i]), MaxDepth)
ArgAt(i, p) == ValueAt(heap, Ref(args.nodes[i]), p)
ResultAt(i, p) == ValueAt(heap, ins[i], p)
BothMerged == pc = "flattening" /\ Len(ins) = 2

\* C29: nodes flattened in sequence with one shared reference map and then
\* unflattened in the same order with one shared index map give graphs in
\* which every object shared between two of the nodes is one object shared
\* between the two results (and objects that were distinct stay distinct);
\* the results are made of new objects and no flatten or unflatten of the
\* sequence raises.
C29_SequencesShareIndexSpace ==
  /\ pc # "failed"
  /\ BothMerged =>
      \A i \in 1..2 : \A j \in i..2 : \A p \in ArgPaths(i), q \in ArgPaths(j) :
         HasIdentity(heap, ArgAt(i, p)) /\ HasIdentity(heap, ArgAt(j, q)) =>
           /\ HasIdentity(heap, ResultAt(i, p))
           /\ ResultAt(i, p) # ArgAt(i, p)
           /\ (ArgAt(i, p) = ArgAt(j, q)) <=> (ResultAt(i, p) = ResultAt(j, q))

\* the second descriptor is a NodeRef to the first one's root, or holds a
\* NodeRef to an index the first one defined, and the two results share that
\* object
C29_Witness ==
  /\ BothMerged /\ err = ""
  /\ \E k \in NodeRefs(Entries(outs[2].graphdef)) :
       LET r == Entries(outs[2].graphdef)[k]
       IN /\ DefsOf(Entries(outs[1].graphdef), r.d.index) # {}
          /\ DefsOf(Entries(outs[2].graphdef), r.d.index) = {}
          /\ \E p \in ArgPaths(1) : ResultAt(1, p) = ResultAt(2, r.path) /\ HasIdentity(heap, ResultAt(1, p))

(***************************************************************************)
(* The context stacks.  GRAPH_CONTEXT is a threading.local: each thread    *)
(* sees its own update_context_stacks, ref_index_stack and index_ref_stack.*)
(* A thread opens and leaves update_context, split_context and             *)
(* merge_context scopes, which nest as with-statements do, and splits and  *)
(* merges inside them; the body of a scope may raise.                      *)
(***************************************************************************)
Threads == {"t1", "t2"}
Tags == {"A", "B"}
\* ctxtag=None
NoTag == "None"

\* GraphContext(): the fields a thread finds on its first access
GraphContext == [update_context_stacks |-> <<>>, ref_index_stack |-> <<>>, index_ref_stack |-> <<>>]

\* (a mutation: GRAPH_CONTEXT is an ordinary object, one for all threads)
Local_Shared(t) == "t1"
\* the attributes of the threading.local that thread t sees
Local(t) == t

\* (a mutation: the outermost context of the tag is taken)
Top_Bottom(stack) == 1
\* stack[-1]
Top(stack) == Len(stack)
Pop(stack) == SubSeq(stack, 1, Len(stack) - 1)

\* current_update_context(tag); pos is where the returned object is in the
\* tag's stack
current_update_context(gc, tag) ==
  IF tag \notin DOMAIN gc.update_context_stacks
  THEN [pos |-> 0, ctx |-> None, err |-> "ValueError: No update context found for tag"]
  ELSE LET stack == gc.update_context_stacks[tag]
       IN [pos |-> Top(stack), ctx |-> Some(stack[Top(stack)]), err |-> ""]
\* ctx = current_update_context(self.ctxtag) if self.ctxtag is not None else None
ContextOf(gc, ctxtag) ==
  IF ctxtag = NoTag THEN [pos |-> 0, ctx |-> None, err |-> ""] ELSE current_update_context(gc, ctxtag)
\* a method of the context object found at pos changed the object to c
SetContext(gc, tag, pos, c) == [gc EXCEPT !.update_context_stacks[tag][pos] = c]

\* UpdateContextManager.__enter__; uid tells the UpdateContext objects apart
UpdateContextManager_enter(gc, tag, uid) ==
  LET c == [uid |-> uid, tag |-> tag] @@ UpdateContext
  IN [gc EXCEPT !.update_context_stacks =
        IF tag \notin DOMAIN @ THEN (tag :> <<c>>) @@ @ ELSE [@ EXCEPT ![tag] = Append(@, c)]]

\* UpdateContextManager.__exit__
UpdateContextManager_exit(gc, tag) ==
  IF tag \notin DOMAIN gc.update_context_stacks
  THEN [gc |-> gc, err |-> "RuntimeError: No update context found for tag, this is a bug."]
  ELSE LET stack == Pop(gc.update_context_stacks[tag])
       IN [gc |-> [gc EXCEPT !.update_context_stacks =
                     IF stack = <<>> THEN [x \in (DOMAIN @) \ {tag} |-> @[x]] ELSE [@ EXCEPT ![tag] = stack]],
           err |-> ""]

\* split_context(ctxtag), before the yield
split_context_enter(gc, ctxtag) ==
  [gc EXCEPT !.ref_index_stack = Append(@, [ctxtag |-> ctxtag, ref_index |-> <<>>])]

\* (a mutation: the SplitContext is popped after the bookkeeping)
split_context_exit_PopLast(gc) ==
  LET flatten_ctx == gc.ref_index_stack[Len(gc.ref_index_stack)]
      cur == current_update_context(gc, flatten_ctx.ctxtag)
      popped == [gc EXCEPT !.ref_index_stack = Pop(@)]
  IN IF flatten_ctx.ctxtag = NoTag THEN [gc |-> popped, err |-> ""]
     ELSE IF cur.err # "" THEN [gc |-> gc, err |-> cur.err]
     ELSE [gc |-> SetContext(popped, flatten_ctx.ctxtag, cur.pos, flatten_end(cur.ctx[1], flatten_ctx.ref_index)), err |-> ""]
\* split_context: the finally clause
split_context_exit(gc) ==
  LET flatten_ctx == gc.ref_index_stack[Len(gc.ref_index_stack)]
      popped == [gc EXCEPT !.ref_index_stack = Pop(@)]
      cur == current_update_context(popped, flatten_ctx.ctxtag)
  IN IF flatten_ctx.ctxtag = NoTag THEN [gc |-> popped, err |-> ""]
     ELSE IF cur.err # "" THEN [gc |-> popped, err |-> cur.err]
     ELSE [gc |-> SetContext(popped, flatten_ctx.ctxtag, cur.pos, flatten_end(cur.ctx[1], flatten_ctx.ref_index)), err |-> ""]

\* merge_context(inner, ctxtag), before the yield
merge_context_enter(gc, ctxtag) ==
  [gc EXCEPT !.index_ref_stack = Append(@, [ctxtag |-> ctxtag, index_ref |-> <<>>])]

\* merge_context: the finally clause; inner is "None", "inner" or "outer"
merge_context_exit(gc, inner) ==
  LET unflatten_ctx == gc.index_ref_stack[Len(gc.index_ref_stack)]
      popped == [gc EXCEPT !.index_ref_stack = Pop(@)]
      cur == current_update_context(popped, unflatten_ctx.ctxtag)
  IN IF unflatten_ctx.ctxtag = NoTag THEN [gc |-> popped, err |-> ""]
     ELSE IF inner = "None" THEN [gc |-> popped, err |-> "ValueError: inner_merge must be specified when using ctxtag"]
     ELSE IF cur.err # "" THEN [gc |-> popped, err |-> cur.err]
     ELSE [gc |-> SetContext(popped, unflatten_ctx.ctxtag, cur.pos, unflatten_end(cur.ctx[1], unflatten_ctx.index_ref, inner = "inner")), err |-> ""]

\* SplitContext.split(node) on the SplitContext the scope yielded
SplitContext_split(gc, h, node) ==
  LET n == Len(gc.ref_index_stack)
      self == gc.ref_index_stack[n]
      cur == ContextOf(gc, self.ctxtag)
  IN IF cur.err # "" THEN [gc |-> gc, graphdef |-> None, state |-> None, err |-> cur.err]
     ELSE LET r == flatten(h, node, self.ref_index, IF cur.ctx = None THEN None ELSE cur.ctx[1].inner_ref_outer_index, TRUE, FALSE)
          IN [gc |-> [gc EXCEPT !.ref_index_stack[n].ref_index = r.ref_index],
              graphdef |-> r.graphdef, state |-> StateFromFlatPath(FlatState(r.paths, r.leaves)), err |-> r.err]

\* MergeContext.merge(graphdef, state) on the MergeContext the scope yielded
MergeContext_merge_in(gc, h, graphdef_, state_) ==
  LET n == Len(gc.index_ref_stack)
      self == gc.index_ref_stack[n]
      cur == ContextOf(gc, self.ctxtag)
  IN IF cur.err # "" THEN [gc |-> gc, node |-> None, heap |-> h, err |-> cur.err]
     ELSE LET r == MergeContext_merge(h, graphdef_, state_, self.index_ref, IF cur.ctx = None THEN None ELSE cur.ctx[1].outer_index_outer_ref)
          IN [gc |-> [gc EXCEPT !.index_ref_stack[n].index_ref = r.index_ref],
              node |-> r.node, heap |-> r.heap, err |-> r.err]

\* a thread: its open scopes, innermost last, each with the stacks found at
\* its entry and the number of operations run before it; the exception propagating in it; the result of its last split;
\* the operations it has run and what each returned or raised
Thread == [frames |-> <<>>, exc |-> "", last |-> None, ops |-> <<>>, log |-> <<>>, n |-> 0]
Op(name, tag, inner) == [name |-> name, tag |-> tag, inner |-> inner]
Frame(op, gc, n) == [kind |-> op.name, tag |-> op.tag, inner |-> op.inner, saved |-> gc, n |-> n]
Ran(tc, op, out) == [tc EXCEPT !.ops = Append(@, op), !.log = Append(@, out), !.n = @ + (IF op.name = "leave" THEN 0 ELSE 1)]

\* what a merge returned, without the identities of the objects
ShapeOf(h, node) ==
  IF node = None THEN None
  ELSE LET r == flatten(h, node.id, <<>>, None, TRUE, FALSE) IN Some([graphdef |-> r.graphdef, leaves |-> r.leaves])

\* the end of the innermost scope: __exit__ or the finally clause
LeaveScope(gc, f) ==
  IF f.kind = "update_context" THEN UpdateContextManager_exit(gc, f.tag)
  ELSE IF f.kind = "split_context" THEN split_context_exit(gc)
  ELSE merge_context_exit(gc, f.inner)

\* thread t, with the stacks gc, runs op on the heap h: entering a scope
\* (gc2 is gc with the new context pushed), splitting, merging, raising, and
\* leaving the innermost scope
EnterStep(gc, gc2, tc, h, op) ==
  [gc |-> gc2, h |-> h, tc |-> Ran([tc EXCEPT !.frames = Append(@, Frame(op, gc, tc.n))], op, "")]
SplitStep(gc, tc, h, op) ==
  LET r == SplitContext_split(gc, h, 1)
  IN [gc |-> r.gc, h |-> h,
      tc |-> Ran([tc EXCEPT !.exc = r.err, !.last = IF r.err = "" THEN Some([graphdef |-> r.graphdef, state |-> r.state]) ELSE @],
                 op, [graphdef |-> r.graphdef, state |-> r.state, err |-> r.err])]
MergeStep(gc, tc, h, op) ==
  LET r == MergeContext_merge_in(gc, h, tc.last[1].graphdef, tc.last[1].state)
  IN [gc |-> r.gc, h |-> r.heap,
      tc |-> Ran([tc EXCEPT !.exc = r.err], op, [shape |-> ShapeOf(r.heap, r.node), err |-> r.err])]
RaiseStep(gc, tc, h, op) ==
  [gc |-> gc, h |-> h, tc |-> Ran([tc EXCEPT !.exc = "Exception"], op, "")]
LeaveStep(gc, tc, h, op) ==
  LET r == LeaveScope(gc, tc.frames[Len(tc.frames)])
  IN [gc |-> r.gc, h |-> h,
      tc |-> Ran([tc EXCEPT !.frames = Pop(@), !.exc = IF r.err # "" THEN r.err ELSE @], op, r.err)]

\* the second thread runs the first half of the protocol under tag "A" while
\* the first runs any scopes
Script ==
  <<Op("update_context", "A", "None"), Op("split_context", "A", "None"), Op("split", NoTag, "None"), Op("leave", NoTag, "None"),
    Op("merge_context", "A", "inner"), Op("merge", NoTag, "None"), Op("leave", NoTag, "None"), Op("leave", NoTag, "None")>>
MaxOps == MaxSteps + 1
InScope(tc, kind) == tc.frames # <<>> /\ tc.frames[Len(tc.frames)].kind = kind
CanDo(t, op) ==
  LET tc == threads[t]
  IN /\ t = "t2" => Len(tc.ops) < Len(Script) /\ op = Script[Len(tc.ops) + 1]
     /\ op.name # "leave" => tc.exc = ""
     /\ op.name # "leave" /\ t = "t1" => tc.n < MaxOps
     /\ op.name = "split" => InScope(tc, "split_context")
     /\ op.name = "merge" => InScope(tc, "merge_context") /\ tc.last # None
     /\ op.name \in {"raise", "leave"} => tc.frames # <<>>

\* the step's result r becomes the state of thread t, of the stacks t sees
\* and of the heap
Do(t, op, r) ==
  /\ GRAPH_CONTEXT' = [GRAPH_CONTEXT EXCEPT ![Local(t)] = r.gc]
  /\ threads' = [threads EXCEPT ![t] = r.tc]
  /\ heap' = r.h
  /\ UNCHANGED <<m, pc, ctx, graphdef, state, node2, node3, err, fuel, refmap, idxmap, twin, fp, before, cache, args, outs, ins, registry>>
Seen(t) == GRAPH_CONTEXT[Local(t)]

\* with update_context(tag):
EnterUpdateContext ==
  \E t \in Threads, tag \in Tags : \E op \in {Op("update_context", tag, "None")} :
    /\ pc = "threads" /\ CanDo(t, op)
    /\ \E r \in {EnterStep(Seen(t), UpdateContextManager_enter(Seen(t), tag, <<t, threads[t].n>>), threads[t], heap, op)} : Do(t, op, r)
\* with split_context(ctxtag):
EnterSplitContext ==
  \E t \in Threads, tag \in {"A", NoTag} : \E op \in {Op("split_context", tag, "None")} :
    /\ pc = "threads" /\ CanDo(t, op)
    /\ \E r \in {EnterStep(Seen(t), split_context_enter(Seen(t), tag), threads[t], heap, op)} : Do(t, op, r)
\* with merge_context(inner, ctxtag):
EnterMergeContext ==
  \E t \in Threads, tag \in {"A", NoTag}, inner \in {"None", "inner", "outer"} : \E op \in {Op("merge_context", tag, inner)} :
    /\ pc = "threads" /\ CanDo(t, op) /\ (tag = NoTag => inner = "None")
    /\ \E r \in {EnterStep(Seen(t), merge_context_enter(Seen(t), tag), threads[t], heap, op)} : Do(t, op, r)
\* graphdef, state = ctx.split(m) in a split_context
SplitInScope ==
  \E t \in Threads : \E op \in {Op("split", NoTag, "None")} :
    /\ pc = "threads" /\ CanDo(t, op)
    /\ \E r \in {SplitStep(Seen(t), threads[t], heap, op)} : Do(t, op, r)
\* ctx.merge(graphdef, state) in a merge_context
MergeInScope ==
  \E t \in Threads : \E op \in {Op("merge", NoTag, "None")} :
    /\ pc = "threads" /\ CanDo(t, op)
    /\ \E r \in {MergeStep(Seen(t), threads[t], heap, op)} : Do(t, op, r)
\* the body of the innermost scope raises
RaiseInBody ==
  \E t \in Threads : \E op \in {Op("raise", NoTag, "None")} :
    /\ pc = "threads" /\ CanDo(t, op)
    /\ \E r \in {RaiseStep(Seen(t), threads[t], heap, op)} : Do(t, op, r)
\* the innermost scope ends: its body returned, or an exception leaves it
Leave(t) ==
  \E op \in {Op("leave", NoTag, "None")} :
    /\ pc = "threads" /\ CanDo(t, op)
    /\ \E r \in {LeaveStep(Seen(t), threads[t], heap, op)} : Do(t, op, r)
LeaveNormally == \E t \in Threads : threads[t].exc = "" /\ Leave(t)
Unwind == \E t \in Threads : threads[t].exc # "" /\ Leave(t)

\* a Graph Node holding a Variable, no context entered by any thread
HeapThreads == <<GraphNodeObj("Dict", ("a" :> Ref(2))), VariableObj("Param", 0, "m0")>>
InitThreads ==
  /\ heap = HeapThreads
  /\ m = 1
  /\ pc = "threads"
  /\ ctx = UpdateContext
  /\ graphdef = None /\ state = None /\ node2 = None /\ node3 = None
  /\ err = "" /\ fuel = 0
  /\ refmap = <<>> /\ idxmap = <<>> /\ twin = <<>> /\ fp = <<>> /\ before = <<>>
  /\ cache = <<>> /\ args = <<>> /\ outs = <<>> /\ ins = <<>>
  /\ GRAPH_CONTEXT = [t \in Threads |-> GraphContext]
  /\ threads = [t \in Threads |-> Thread]
  /\ registry = <<>>

NextThreads ==
  EnterUpdateContext \/ EnterSplitContext \/ EnterMergeContext \/ SplitInScope \/ MergeInScope \/ RaiseInBody \/ LeaveNormally \/ Unwind

SpecThreads == InitThreads /\ [][NextThreads]_vars

(***************************************************************************)
(* Properties of the context stacks (specification SpecThreads).           *)
(***************************************************************************)
\* the update contexts thread t has entered and not left, innermost last
OpenUpdates(t, tag) == SelectSeq(threads[t].frames, LAMBDA f : f.kind = "update_context" /\ f.tag = tag)
UidsOf(stack) == [i \in 1..Len(stack) |-> stack[i].uid]
StackOf(gc, tag) == IF tag \in DOMAIN gc.update_context_stacks THEN gc.update_context_stacks[tag] ELSE <<>>
\* thread t took a step; it left its innermost scope
StepOf(t) == threads'[t] # threads[t]
Leaves(t) == StepOf(t) /\ Len(threads'[t].frames) < Len(threads[t].frames)
Innermost(t) == threads[t].frames[Len(threads[t].frames)]
\* the tag the step of thread t works under
TagOfStep(t) ==
  LET op == threads'[t].ops[Len(threads'[t].ops)]
  IN IF op.name \in {"leave", "split", "merge"} THEN Innermost(t).tag ELSE op.tag

\* C24: with nested update contexts of one tag, current_update_context(tag)
\* is the innermost one and the end of a split or merge scope changes only
\* the innermost one; when the inner context is left the outer one is current
\* again with its maps as they were when the inner one was entered; a step
\* under one tag changes no context of another tag; once the last context of
\* a tag is left, current_update_context(tag) raises.
C24_NestedAndUnrelatedTags ==
  [][\A t \in Threads : StepOf(t) =>
       LET gc == GRAPH_CONTEXT[Local(t)]
           gc2 == GRAPH_CONTEXT'[Local(t)]
       IN /\ \A tag \in Tags :
               LET open == SelectSeq(threads'[t].frames, LAMBDA f : f.kind = "update_context" /\ f.tag = tag)
                   cur == current_update_context(gc2, tag)
               IN /\ IF open = <<>> THEN cur.err = "ValueError: No update context found for tag"
                     ELSE cur.err = "" /\ cur.ctx[1].uid = <<t, open[Len(open)].n>>
                  /\ tag # TagOfStep(t) => StackOf(gc2, tag) = StackOf(gc, tag)
          /\ Leaves(t) /\ Innermost(t).kind = "update_context" =>
               StackOf(gc2, Innermost(t).tag) = StackOf(Innermost(t).saved, Innermost(t).tag)
          /\ Leaves(t) /\ Innermost(t).kind # "update_context" /\ Innermost(t).tag # NoTag =>
               LET old == StackOf(gc, Innermost(t).tag)
                   new == StackOf(gc2, Innermost(t).tag)
               IN Len(new) = Len(old) /\ \A i \in 1..(Len(old) - 1) : new[i] = old[i]]_vars

\* a thread has two contexts of tag "A" open; a split scope under "A" has
\* ended and recorded its maps in the inner one, the outer one is untouched
C24_Witness ==
  \E t \in Threads :
    LET stacks == GRAPH_CONTEXT[t].update_context_stacks
    IN /\ threads[t].exc = ""
       /\ "A" \in DOMAIN stacks /\ Len(stacks["A"]) = 2
       /\ stacks["A"][1].outer_ref_outer_index = None
       /\ stacks["A"][2].outer_ref_outer_index # None
       /\ \A f \in Range(threads[t].frames) : f.kind = "update_context"

\* the stacks hold the same context objects, and the same SplitContexts and
\* MergeContexts with the same maps
SameContents(gc, saved) ==
  /\ gc.ref_index_stack = saved.ref_index_stack
  /\ gc.index_ref_stack = saved.index_ref_stack
  /\ DOMAIN gc.update_context_stacks = DOMAIN saved.update_context_stacks
  /\ \A tag \in DOMAIN saved.update_context_stacks :
       UidsOf(gc.update_context_stacks[tag]) = UidsOf(saved.update_context_stacks[tag])

\* C25: when a split_context, merge_context or update_context scope ends, the
\* thread's stacks hold what they held when the scope was entered, whether
\* the body returned or raised and whether or not the bookkeeping at the end
\* of the scope raised.
C25_ScopedCleanup ==
  [][\A t \in Threads : Leaves(t) =>
       /\ threads'[t].frames = Pop(threads[t].frames)
       /\ SameContents(GRAPH_CONTEXT'[Local(t)], Innermost(t).saved)]_vars

\* the body of a split_context("A") scope raised inside an update context of
\* another tag, the bookkeeping at its end raised too because no context of
\* tag "A" is open, and the thread is back outside every scope with empty
\* stacks
C25_Witness ==
  /\ threads["t1"].frames = <<>>
  /\ threads["t1"].exc = "ValueError: No update context found for tag"
  /\ GRAPH_CONTEXT["t1"] = GraphContext
  /\ \E i \in 1..Len(threads["t1"].ops) : threads["t1"].ops[i].name = "raise"
  /\ threads["t1"].ops[1] = Op("update_context", "B", "None")
  /\ threads["t1"].ops[2] = Op("split_context", "A", "None")

\* thread t running its operations with no other thread, from the start
Step(gc, tc, h, t, op) ==
  IF op.name = "update_context" THEN EnterStep(gc, UpdateContextManager_enter(gc, op.tag, <<t, tc.n>>), tc, h, op)
  ELSE IF op.name = "split_context" THEN EnterStep(gc, split_context_enter(gc, op.tag), tc, h, op)
  ELSE IF op.name = "merge_context" THEN EnterStep(gc, merge_context_enter(gc, op.tag), tc, h, op)
  ELSE IF op.name = "split" THEN SplitStep(gc, tc, h, op)
  ELSE IF op.name = "merge" THEN MergeStep(gc, tc, h, op)
  ELSE IF op.name = "raise" THEN RaiseStep(gc, tc, h, op)
  ELSE LeaveStep(gc, tc, h, op)
RECURSIVE Replay(_, _, _, _, _)
Replay(gc, tc, h, t, ops) ==
  IF ops = <<>> THEN tc
  ELSE LET r == Step(gc, tc, h, t, Head(ops)) IN Replay(r.gc, r.tc, r.h, t, Tail(ops))
Alone(t) == Replay(GraphContext, Thread, HeapThreads, t, threads[t].ops)

\* the stacks thread t sees hold the contexts of the scopes t has open, in
\* the order t entered them
OwnScopesOnly(t) ==
  LET gc == GRAPH_CONTEXT[Local(t)]
      open(kind) == SelectSeq(threads[t].frames, LAMBDA f : f.kind = kind)
  IN /\ Len(gc.ref_index_stack) = Len(open("split_context"))
     /\ Len(gc.index_ref_stack) = Len(open("merge_context"))
     /\ \A tag \in Tags :
          LET mine == OpenUpdates(t, tag)
          IN UidsOf(StackOf(gc, tag)) = [i \in 1..Len(mine) |-> <<t, mine[i].n>>]

\* C26: the stacks are per thread: what a thread finds on them are the
\* contexts of its own open scopes, current_update_context never returns a
\* context another thread entered, and every split and merge of a thread
\* interleaved with another thread's under the same tag returns, and every
\* scope end raises, what it does when the thread runs alone.
C26_ThreadIsolation ==
  pc = "threads" =>
    \A t \in Threads :
      /\ OwnScopesOnly(t)
      /\ \A tag \in Tags :
           LET cur == current_update_context(GRAPH_CONTEXT[Local(t)], tag)
           IN cur.err = "" => cur.ctx[1].uid[1] = t
      /\ threads[t].log = Alone(t).log
      /\ threads[t].exc = Alone(t).exc

\* both threads are inside an update context of tag "A"; each has split the
\* graph in a split scope of that tag, and the second has merged since the
\* first entered its context
C26_Witness ==
  /\ \A t \in Threads : "A" \in DOMAIN GRAPH_CONTEXT[t].update_context_stacks /\ threads[t].last # None /\ threads[t].exc = ""
  /\ GRAPH_CONTEXT["t1"].update_context_stacks["A"][1].outer_ref_outer_index # None
  /\ GRAPH_CONTEXT["t2"].update_context_stacks["A"][1].inner_ref_outer_index # None
  /\ GRAPH_CONTEXT["t2"].update_context_stacks["A"][1].inner_ref_outer_index # Some(<<>>)

(***************************************************************************)
(* The node type registry: GRAPH_REGISTRY and PYTREE_REGISTRY, each a map  *)
(* from a type to the capability set registered for it.                    *)
(***************************************************************************)
RegTypes == {"Dict", "List", "tuple"}
Capabilities == {"c1", "c2"}
\* the registries once the module is loaded: the common pytrees are
\* registered at its end, no graph node type is
Registries == [graph |-> <<>>, pytree |-> ("tuple" :> "builtin")]

\* register_graph_node_type(type, flatten, set_key, pop_key, create_empty, clear, init)
register_graph_node_type(reg, type, impl) ==
  IF type \in DOMAIN reg.graph
  THEN [registry |-> reg, err |-> "ValueError: Node type is already registered."]
  ELSE [registry |-> [reg EXCEPT !.graph = (type :> impl) @@ @], err |-> ""]

\* register_pytree_node_type(type, flatten, unflatten)
register_pytree_node_type(reg, type, impl) ==
  IF type \in DOMAIN reg.pytree
  THEN [registry |-> reg, err |-> "ValueError: Node type is already registered."]
  ELSE [registry |-> [reg EXCEPT !.pytree = (type :> impl) @@ @], err |-> ""]

Registered(r, kind) ==
  /\ registry' = r.registry /\ err' = r.err
  /\ args' = [fn |-> kind, type |-> args.type, impl |-> args.impl, done |-> TRUE]
  /\ UNCHANGED <<heap, m, pc, ctx, graphdef, state, node2, node3, fuel, refmap, idxmap, twin, fp, before, cache, outs, ins, GRAPH_CONTEXT, threads>>

\* a caller is about to register capability set impl for type
ChooseRegistration ==
  /\ pc = "registry" /\ args.done
  /\ \E type \in RegTypes, impl \in Capabilities : args' = [fn |-> "", type |-> type, impl |-> impl, done |-> FALSE]
  /\ UNCHANGED <<heap, m, pc, ctx, graphdef, state, node2, node3, err, fuel, refmap, idxmap, twin, fp, before, cache, outs, ins, GRAPH_CONTEXT, threads, registry>>
RegisterGraphNodeType ==
  /\ pc = "registry" /\ ~args.done
  /\ \E r \in {register_graph_node_type(registry, args.type, args.impl)} : Registered(r, "graph")
RegisterPytreeNodeType ==
  /\ pc = "registry" /\ ~args.done
  /\ \E r \in {register_pytree_node_type(registry, args.type, args.impl)} : Registered(r, "pytree")

InitRegistry ==
  /\ heap = <<>> /\ m = 0
  /\ pc = "registry"
  /\ ctx = UpdateContext
  /\ graphdef = None /\ state = None /\ node2 = None /\ node3 = None
  /\ err = "" /\ fuel = 0
  /\ refmap = <<>> /\ idxmap = <<>> /\ twin = <<>> /\ fp = <<>> /\ before = <<>>
  /\ cache = <<>> /\ outs = <<>> /\ ins = <<>>
  /\ args = [fn |-> "", type |-> "tuple", impl |-> "builtin", done |-> TRUE]
  /\ GRAPH_CONTEXT = <<>> /\ threads = <<>>
  /\ registry = Registries

NextRegistry == ChooseRegistration \/ RegisterGraphNodeType \/ RegisterPytreeNodeType

SpecRegistry == InitRegistry /\ [][NextRegistry]_vars

IsRegistered(type) == type \in DOMAIN registry.graph \cup DOMAIN registry.pytree
RegisterStep == pc = "registry" /\ ~args.done /\ args'.done

\* C28: registration is exclusive: register_graph_node_type and
\* register_pytree_node_type raise when the type is already registered, and
\* the failed call leaves the registry unchanged.
C28_RegistrationIsExclusive ==
  [][RegisterStep /\ IsRegistered(args.type) => err' # "" /\ registry' = registry]_vars

(***************************************************************************)
(* Graphs that hold Graph Nodes of a registered type whose class compares  *)
(* and hashes by contents.                                                 *)
(***************************************************************************)
\* node.key = Point(): a new Graph Node of such a type, with no attributes
NewPoint ==
  /\ Mutable
  /\ \E id \in LiveNodes, k \in Range(AttrKeys) : Assignable(id, k) /\ SetAttrNew(id, k, GraphNodeObj("Point", <<>>))
  /\ Spend

\* fingerprint(m, ref_index={}, new_ref_index={}) after the flatten
FingerprintAfterFlatten ==
  /\ pc = "flat"
  /\ \E r \in {fingerprint(heap, m, <<>>, <<>>)} : fp' = <<r>> /\ err' = r.err
  /\ pc' = "fingerprinted too"
  /\ UNCHANGED <<heap, m, ctx, graphdef, state, node2, node3, fuel, refmap, idxmap, twin, before, callvars>>

NextEqual == Build \/ NewPoint \/ DoFlatten \/ FingerprintAfterFlatten

SpecEqual == InitClone /\ [][NextEqual]_vars

\* each Graph Node and Variable of the graph has an index of its own in the
\* reference map
OwnIndex(ref_index) ==
  \A a \in IdentityObjects(heap, m) :
    a \in DOMAIN ref_index /\ \A b \in IdentityObjects(heap, m) : a # b => b \in DOMAIN ref_index /\ ref_index[a] # ref_index[b]

\* C27: reference maps are keyed by identity: in flatten and in fingerprint
\* two distinct Graph Nodes or Variables, also when they compare equal and
\* hash equal, are never taken for one reference: each gets its own index and
\* its own definition and none is replaced by a NodeRef to another.
C27_ReferenceMapsKeyedByIdentity ==
  /\ pc = "flat" /\ err = "" =>
       /\ OwnIndex(refmap)
       /\ \A id \in IdentityObjects(heap, m) : Cardinality(DefsOf(Entries(graphdef), refmap[id])) = 1
       /\ \A k \in NodeRefs(Entries(graphdef)) :
            LET v == ValueAt(heap, Ref(m), Entries(graphdef)[k].path)
            IN v.id \in DOMAIN refmap /\ refmap[v.id] = Entries(graphdef)[k].d.index
  /\ pc = "fingerprinted too" /\ err = "" => OwnIndex(fp[1].new_ref_index)

(***************************************************************************)
(* pop and update: Variables are taken out of a graph in place, and a      *)
(* graph is updated in place from a state.                                 *)
(***************************************************************************)
\* filterlib.to_predicate(filter) applied to (path, value): `...`, a
\* PathContains(key) and an OfType(type) filter
Predicate(filter, path, var) ==
  IF filter.kind = "Everything" THEN TRUE
  ELSE IF filter.kind = "PathContains" THEN filter.arg \in Range(path)
  ELSE var.type = filter.arg
Filters == {[kind |-> "Everything", arg |-> ""], [kind |-> "PathContains", arg |-> "a"], [kind |-> "OfType", arg |-> "BatchStat"]}

\* _graph_pop; st = [heap, id_to_index, flat_states, err], id_to_index kept
\* as the set of its keys, flat_states with one flat state for each filter
RECURSIVE _graph_pop(_, _, _, _)
RECURSIVE PopItems(_, _, _, _, _, _)
\* the loop `for name, value in node_dict.items()`, from position i
PopItems(node_dict, i, node, st, path_parts, filters) ==
  IF st.err # "" \/ i > Len(node_dict) THEN st
  ELSE LET name == node_dict[i][1]
           value == node_dict[i][2]
           node_path == Append(path_parts, name)
           matching == {j \in 1..Len(filters) : Predicate(filters[j], node_path, st.heap[value.id])}
           first == CHOOSE j \in matching : \A j2 \in matching : j <= j2
           next == IF is_node(st.heap, value) THEN _graph_pop(value.id, st, node_path, filters)
                   ELSE IF ~IsVariable(st.heap, value) THEN st
                   ELSE IF value.id \in st.id_to_index THEN st
                   ELSE IF matching = {} THEN st
                   ELSE IF st.heap[node].kind = "pytree" THEN [st EXCEPT !.err = "ValueError: Cannot pop key from node of type tuple"]
                   ELSE [st EXCEPT !.id_to_index = @ \cup {value.id},
                                   !.heap[node].attrs = PopKey(@, name),
                                   !.flat_states[first] = Append(@, <<node_path, VariableState(st.heap[value.id])>>)]
       IN PopItems(node_dict, i + 1, node, next, path_parts, filters)
_graph_pop(node, st, path_parts, filters) ==
  IF st.err # "" \/ node \in st.id_to_index THEN st
  ELSE PopItems(node_impl_flatten(st.heap[node]), 1, node, [st EXCEPT !.id_to_index = @ \cup {node}], path_parts, filters)

\* pop(node, *filters): one State for each filter
pop(h, node, filters) ==
  IF filters = <<>> THEN [heap |-> h, err |-> "ValueError: Expected at least one filter", states |-> <<>>]
  ELSE LET r == _graph_pop(node, [heap |-> h, id_to_index |-> {}, flat_states |-> [j \in 1..Len(filters) |-> <<>>], err |-> ""], <<>>, filters)
       IN [heap |-> r.heap, err |-> r.err,
           states |-> [j \in 1..Len(filters) |->
                         [form |-> "State", items |-> {r.flat_states[j][i] : i \in 1..Len(r.flat_states[j])}]]]

\* the nested mapping given to update, read from its flat paths: the keys
\* under a prefix in the order of the mapping, and the leaf at a path
KeysUnder(items, prefix) ==
  LET ks == {x[1][Len(prefix) + 1] : x \in {y \in items : IsPrefix(prefix, y[1]) /\ Len(y[1]) > Len(prefix)}}
  IN SelectSeq(AllKeys, LAMBDA k : k \in ks)
IsLeafAt(items, path) == \E x \in items : x[1] = path
LeafAt(items, path) == (CHOOSE x \in items : x[1] = path)[2]
\* node_impl.node_dict(node)
node_dict_of(obj) ==
  IF obj.kind = "graph" THEN obj.attrs
  ELSE [k \in {IndexKeys[i] : i \in 1..Len(obj.items)} |-> obj.items[KeyRank(k)]]

\* a leaf of the given state that is an object of the caller: a VariableState
\* object, or a Variable (VariableLeaf)
StateObj(type, value, metadata) == [kind |-> "state", type |-> type, value |-> value, metadata |-> metadata]
StateLeafOf(id) == [lt |-> "VariableStateObject", id |-> id]
\* the leaf as update_from_state / raw_value read it
LeafValue(h, leaf) ==
  IF leaf.lt = "VariableStateObject" THEN VariableState(h[leaf.id])
  ELSE IF leaf.lt = "Variable" THEN [lt |-> "raw", value |-> Ref(leaf.id)]
  ELSE leaf
\* what set_key stores for a value that is not a Variable: the value given
GivenObject_AsStatic(leaf) == StaticValue(leaf)
GivenObject(leaf) == IF leaf.lt = "VariableStateObject" THEN Ref(leaf.id) ELSE StaticValue(leaf)
\* Variable.copy()
Variable_copy(var) == var

\* _graph_update_dynamic(node, state); st = [heap, err]
RECURSIVE _graph_update_dynamic(_, _, _, _)
RECURSIVE UpdateItems(_, _, _, _, _, _, _)
\* the loop `for key, value in state.items()`, from position i
UpdateItems(keys, i, node, node_dict, st, items, prefix) ==
  IF st.err # "" \/ i > Len(keys) THEN st
  ELSE LET key == keys[i]
           path == Append(prefix, key)
           next ==
             IF key \notin DOMAIN node_dict
             THEN IF st.heap[node].kind = "pytree"
                  THEN [st EXCEPT !.err = "ValueError: Cannot set key on immutable node of type tuple"]
                  ELSE IF ~IsLeafAt(items, path) THEN [st EXCEPT !.heap[node].attrs = SetKey(@, key, StaticValue("mapping"))]
                  ELSE IF LeafAt(items, path).lt = "Variable"
                  THEN [st EXCEPT !.heap = [Alloc(@, Variable_copy(@[LeafAt(items, path).id])) EXCEPT ![node].attrs = SetKey(@, key, Ref(Len(st.heap) + 1))]]
                  ELSE [st EXCEPT !.heap[node].attrs = SetKey(@, key, GivenObject(LeafAt(items, path)))]
             ELSE IF is_node(st.heap, node_dict[key])
             THEN IF IsLeafAt(items, path)
                  THEN [st EXCEPT !.err = "ValueError: Expected a subgraph"]
                  ELSE _graph_update_dynamic(node_dict[key].id, st, items, path)
             ELSE IF ~IsVariable(st.heap, node_dict[key])
             THEN [st EXCEPT !.err = "ValueError: Trying to update a non-Variable attribute"]
             ELSE [st EXCEPT !.heap[node_dict[key].id] =
                     IF IsLeafAt(items, path) THEN UpdateVariable(@, LeafValue(st.heap, LeafAt(items, path))) ELSE [@ EXCEPT !.value = "mapping"]]
       IN UpdateItems(keys, i + 1, node, node_dict, next, items, prefix)
_graph_update_dynamic(node, st, items, prefix) ==
  UpdateItems(KeysUnder(items, prefix), 1, node, node_dict_of(st.heap[node]), st, items, prefix)

\* update(node, state)
update(h, node, given) == _graph_update_dynamic(node, [heap |-> h, err |-> ""], given.items, <<>>)

\* the states given to update: the state of the graph with a value in every
\* leaf, and that state with a leaf more under a key its node does not have;
\* the added leaf is a VariableState object or a Variable of the caller (the
\* objects s and v), or a Variable of the graph
NodePaths == {p \in OrigPaths : is_node(heap, OrigAt(p))}
CallerObjects == <<StateObj("Param", 1, "m0"), VariableObj("Param", 1, "m0")>>
GivenLeaves(s, v) == {StateLeafOf(s), VariableLeaf(v)} \cup {VariableLeaf(id) : id \in {x \in Reach(heap, m) : heap[x].kind = "var"}}
ExtraLeaves(s, v) == {<<Append(p, k), leaf>> : p \in NodePaths, k \in {"1", "2", "ref"}, leaf \in GivenLeaves(s, v)}
GivenUpdates(s, v) ==
  LET r == flatten(heap, m, <<>>, None, TRUE, FALSE)
      base(x) == {<<r.paths[i], [r.leaves[i] EXCEPT !.value = x]>> : i \in 1..Len(r.paths)}
  IN {[form |-> "State", items |-> base(x)] : x \in Vals}
       \cup {[form |-> "State", items |-> base(1) \cup {e}] :
               e \in {y \in ExtraLeaves(s, v) : OrigAt(y[1]) = Missing}}

\* popped = pop(m, *filters), with no, one or two filters
FilterLists == {<<>>} \cup {<<f>> : f \in Filters} \cup {<<f, g>> : f \in Filters, g \in Filters}
DoPop ==
  /\ pc = "build"
  /\ \E filters \in FilterLists : \E r \in {pop(heap, m, filters)} :
       /\ heap' = r.heap /\ err' = r.err /\ state' = r.states /\ args' = filters
       /\ pc' = IF r.err = "" THEN "popped" ELSE "pop raised"
  /\ before' = heap
  /\ UNCHANGED <<m, ctx, graphdef, node2, node3, fuel, refmap, idxmap, twin, fp, cache, outs, ins, GRAPH_CONTEXT, threads, registry>>

\* update(m, state), the caller's objects s and v being allocated first
DoUpdate ==
  /\ pc = "build"
  /\ \E given \in GivenUpdates(Len(heap) + 1, Len(heap) + 2) : \E r \in {update(heap \o CallerObjects, m, given)} :
       /\ heap' = r.heap /\ err' = r.err /\ state' = given
       /\ pc' = IF r.err = "" THEN "updated" ELSE "update raised"
  /\ before' = heap \o CallerObjects
  /\ UNCHANGED <<m, ctx, graphdef, node2, node3, fuel, refmap, idxmap, twin, fp, callvars>>

\* node.key = (BatchStat(x),): a tuple whose item is a new Variable
NewTupleOfVar ==
  /\ Mutable
  /\ \E id \in LiveNodes, k \in Range(AttrKeys), x \in Vals :
       /\ Assignable(id, k)
       /\ heap' = [heap \o <<VariableObj("BatchStat", x, "m0"), TupleObj(<<Ref(Len(heap) + 1)>>)>>
                      EXCEPT ![id].attrs = SetKey(@, k, Ref(Len(heap) + 2))]
  /\ Spend

NextUpdate == Build \/ NewTupleOfVar \/ DoPop \/ DoUpdate

SpecUpdate == InitClone /\ [][NextUpdate]_vars

(***************************************************************************)
(* Properties of pop and update (specification SpecUpdate).                *)
(***************************************************************************)
AfterPop == pc \in {"popped", "pop raised"}
AfterUpdate == pc \in {"updated", "update raised"}
PytreeNodes == {id \in Reach(before, m) : before[id].kind = "pytree"}
PytreeNodesUnchanged == \A id \in PytreeNodes : heap[id] = before[id]
\* the state given to update has a key that the Pytree Node at its place
\* does not have
KeyMissingOnPytreeNode ==
  \E x \in state.items :
    /\ Len(x[1]) >= 1
    /\ LET parent == ValueAt(before, Original, SubSeq(x[1], 1, Len(x[1]) - 1))
       IN /\ is_pytree_node(before, parent)
          /\ x[1][Len(x[1])] \notin KeysOf(before[parent.id])
\* the Variable matches a filter of the pop at every path that leads to it
Matches(id) == \A p \in PathsTo(before, Original, id) : \E j \in 1..Len(args) : Predicate(args[j], p, before[id])
\* the Variables that match the filter and are items of a Pytree Node
HeldByPytreeNode ==
  {id \in Reach(before, m) : /\ before[id].kind = "var"
                             /\ Matches(id)
                             /\ \E t \in PytreeNodes : \E i \in 1..Len(before[t].items) : before[t].items[i] = Ref(id)}

\* C30: update with a key that is not present on a Pytree Node raises an
\* error, pop raises an error when a Variable matching the filter is an item
\* of a Pytree Node, and in both cases the Pytree Nodes are left as they were.
C30_PytreeNodesImmutable ==
  /\ AfterUpdate => /\ KeyMissingOnPytreeNode => err # ""
                    /\ PytreeNodesUnchanged
  /\ AfterPop => /\ HeldByPytreeNode # {} => err # ""
                 /\ PytreeNodesUnchanged

\* the Variables that are attributes of a Graph Node
HeldByGraphNode ==
  {id \in Reach(before, m) : \E g \in Reach(before, m) :
     before[g].kind = "graph" /\ \E k \in DOMAIN before[g].attrs : before[g].attrs[k] = Ref(id)}

\* what holds of update, and of pop when a matching item of a Pytree Node is
\* an attribute of no Graph Node
UpdateRaisesOnPytreeNode ==
  AfterUpdate => /\ KeyMissingOnPytreeNode => err = "ValueError: Cannot set key on immutable node of type tuple"
                 /\ PytreeNodesUnchanged
PopRaisesAtPytreeNode ==
  AfterPop => /\ HeldByPytreeNode \ HeldByGraphNode # {} => err = "ValueError: Cannot pop key from node of type tuple"
              /\ PytreeNodesUnchanged

\* the paths to Variables in the graph before and after the call
VarPathsBefore == {p \in WalkPaths(before, Original, MaxDepth) : IsVariable(before, ValueAt(before, Original, p))}
VarPathsAfter == {p \in WalkPaths(heap, Original, MaxDepth) : IsVariable(heap, ValueAt(heap, Original, p))}
VarBefore(p) == ValueAt(before, Original, p).id
\* the filters of the pop that the Variable at path p matches
MatchingAt(h, p) == {j \in 1..Len(args) : Predicate(args[j], p, h[ValueAt(h, Original, p).id])}
\* the entries of the returned states that hold the Variable found at path p
ReturnedAt(p) == {j \in 1..Len(state) : <<p, VariableState(before[VarBefore(p)])>> \in state[j].items}
ReturnedPaths == UNION {{x[1] : x \in state[j].items} : j \in 1..Len(state)}
\* the Variable is returned once: under one of its paths, in one state, that
\* of the first filter it matches there
ReturnedOnce(id) ==
  \E p \in PathsTo(before, Original, id) :
    /\ ReturnedAt(p) = {CHOOSE j \in MatchingAt(before, p) : \A j2 \in MatchingAt(before, p) : j <= j2}
    /\ \A q \in PathsTo(before, Original, id) \ {p} : q \notin ReturnedPaths

\* C31: after pop(node, *filters) no Variable that matches a filter (at
\* whichever path it is reached) is reachable from node, each such Variable
\* is in exactly one returned state, that of the first filter it matches,
\* under a path it was found at, and the Variables matching no filter are
\* where they were.
C31_PopRemovesWhatItReturns ==
  pc = "popped" =>
    /\ \A p \in VarPathsAfter : ~Matches(ValueAt(heap, Original, p).id)
    /\ \A p \in VarPathsBefore : Matches(VarBefore(p)) => ReturnedOnce(VarBefore(p))
    /\ \A p \in VarPathsBefore :
         (\A q \in PathsTo(before, Original, VarBefore(p)) : MatchingAt(before, q) = {})
           => ValueAt(heap, Original, p) = ValueAt(before, Original, p) /\ heap[VarBefore(p)] = before[VarBefore(p)]

\* what holds of pop: the attribute at every returned path is removed, every
\* Variable whose first visited path matches a filter is returned once, and
\* the Variables matching no filter are where they were
PopRemovesTheReturnedPaths ==
  pc = "popped" =>
    /\ \A p \in ReturnedPaths : ValueAt(heap, Original, p) = Missing /\ p \in VarPathsBefore /\ Cardinality(ReturnedAt(p)) = 1
    /\ \A p \in VarPathsBefore : \A q \in ReturnedPaths \ {p} : VarBefore(q) # VarBefore(p) \/ p \notin ReturnedPaths
    /\ \A p \in VarPathsBefore :
         (\A q \in PathsTo(before, Original, VarBefore(p)) : MatchingAt(before, q) = {})
           => ValueAt(heap, Original, p) = ValueAt(before, Original, p) /\ heap[VarBefore(p)] = before[VarBefore(p)]
\* a matching Variable held at one path only is removed and returned
PopRemovesUnsharedVariables ==
  pc = "popped" =>
    \A p \in VarPathsBefore :
      MatchingAt(before, p) # {} /\ PathsTo(before, Original, VarBefore(p)) = {p}
        => ValueAt(heap, Original, p) = Missing /\ ReturnedOnce(VarBefore(p))

\* the leaves of the given state at the paths of Variables of the graph, and
\* those under a key that a Graph Node of the graph does not have
AtPath(h, p) == ValueAt(h, Original, p)
Parent(p) == SubSeq(p, 1, Len(p) - 1)
NamedVariables == {x \in state.items : IsVariable(before, AtPath(before, x[1]))}
NamedNewKeys == {x \in state.items : AtPath(before, x[1]) = Missing /\ is_graph_node(before, AtPath(before, Parent(x[1])))}
\* every Variable named by the state is the object it was and has the value
\* given for it, and every path of the graph leads to the object it led to
UpdatedInPlace ==
  /\ \A x \in NamedVariables : LET id == AtPath(before, x[1]).id
                               IN heap[id] = UpdateVariable(before[id], LeafValue(before, x[2]))
  /\ \A p \in WalkPaths(before, Original, MaxDepth) : AtPath(heap, p) = AtPath(before, p)
\* the attribute under a new key is a new object with the contents of the
\* given one (those it had when update reached the key, if the same call
\* updates the given object too)
IsCopyOfGiven(x) ==
  LET a == AtPath(heap, x[1])
  IN IsRef(a) /\ a.id > Len(before) /\ heap[a.id] \in {before[x[2].id], heap[x[2].id]}
\* the attribute under a new key is the given object
IsGiven(x) == AtPath(heap, x[1]) = Ref(x[2].id)
\* nothing else has changed: the other objects, the other attributes
Framed ==
  /\ \A id \in 1..Len(before) :
       \/ \E x \in NamedVariables : AtPath(before, x[1]).id = id
       \/ IF before[id].kind = "graph"
          THEN /\ \A k \in DOMAIN before[id].attrs : k \in DOMAIN heap[id].attrs /\ heap[id].attrs[k] = before[id].attrs[k]
               /\ \A k \in DOMAIN heap[id].attrs \ DOMAIN before[id].attrs :
                    \E x \in NamedNewKeys : AtPath(before, Parent(x[1])) = Ref(id) /\ x[1][Len(x[1])] = k
          ELSE heap[id] = before[id]
  /\ Len(heap) <= Len(before) + Cardinality({x \in NamedNewKeys : x[2].lt = "Variable"})

\* C32: update(node, state) changes the value of each Variable named by the
\* state and keeps the object at every path, adds a copy of the given value
\* under every key that is new on a Graph Node, and changes nothing else.
C32_UpdateInPlaceAndFramed ==
  pc = "updated" => /\ UpdatedInPlace
                    /\ \A x \in NamedNewKeys : IsCopyOfGiven(x)
                    /\ Framed

\* C32 as the code has it: under a key that is new on a Graph Node update
\* adds a copy of the given value when it is a Variable, and the given
\* object itself when it is a VariableState.
C32_UpdateInPlaceStoresGivenState ==
  pc = "updated" => /\ UpdatedInPlace
                    /\ \A x \in NamedNewKeys : IF x[2].lt = "Variable" THEN IsCopyOfGiven(x) ELSE IsGiven(x)
                    /\ Framed
\* an update that changed the value of a Variable of the graph and added the
\* caller's VariableState under a new key of a Graph Node
C32_Witness ==
  /\ pc = "updated"
  /\ \E x \in NamedVariables : heap[AtPath(before, x[1]).id].value # before[AtPath(before, x[1]).id].value
  /\ \E x \in NamedNewKeys : x[2].lt = "VariableStateObject" /\ IsGiven(x)
\* an update that added a copy of a Variable of the graph under a new key
CopiedVariable ==
  pc = "updated" /\ \E x \in NamedNewKeys : x[2].lt = "Variable" /\ x[2].id \in Reach(before, m) /\ IsCopyOfGiven(x)

(***************************************************************************)
(* unflatten of a descriptor whose VariableDef repeats an index            *)
(* (specification SpecLeafIndex).                                          *)
(***************************************************************************)
\* a VariableDef given the index of another definition
ReindexedLeaf(gd) ==
  LET e == Entries(gd) IN
  {EditAt(gd, e[k].path, [e[k].d EXCEPT !.index = e[j].d.index]) :
     k \in {x \in 1..Len(e) : e[x].d.tag = "VariableDef"},
     j \in {x \in 1..Len(e) : IsDefinition(e[x].d)}} \ {gd}

\* the caller hands over a descriptor with such a VariableDef
CorruptLeaf ==
  /\ pc = "tagged"
  /\ \E gd \in ReindexedLeaf(graphdef) : graphdef' = gd
  /\ pc' = "corrupt"
  /\ UNCHANGED <<heap, m, ctx, state, node2, node3, err, fuel, refmap, idxmap, twin, fp, before, callvars>>

NextLeafIndex == Build \/ DoFlattenTagged \/ CorruptLeaf \/ DoMerge

SpecLeafIndex == InitClone /\ [][NextLeafIndex]_vars

\* entry k is a VariableDef whose index index_ref already holds
IsDuplicateLeaf(e, idx0, k) == e[k].d.tag = "VariableDef" /\ e[k].d.index \in IndicesBefore(e, idx0, k)
\* the definition that registered the index of entry k first
FirstRegistered(e, k) ==
  CHOOSE j \in 1..(k - 1) : /\ IsDefinition(e[j].d) /\ e[j].d.index = e[k].d.index
                            /\ \A i \in 1..(j - 1) : ~(IsDefinition(e[i].d) /\ e[i].d.index = e[k].d.index)

\* C33: when unflatten arrives at a VariableDef whose index is already in
\* index_ref it raises an error, and the index still names the object that
\* was registered first (a Graph Node if a NodeDef registered it).
C33_DuplicateLeafIndexRaises ==
  [][UnflattenStep =>
       LET e == Entries(graphdef)
       IN \A k \in 1..Len(e) :
            IsDuplicateLeaf(e, <<>>, k) /\ Arrives(e, <<>>, heap, ReuseMap, k)
              => /\ err' # ""
                 /\ IsGraphNodeDef(e[FirstRegistered(e, k)].d) => heap'[idxmap'[e[k].d.index]].kind = "graph"]_vars

(***************************************************************************)
(* More properties of the update context protocol (specification Spec).    *)
(***************************************************************************)
\* C34: after the four calls on one context (outer split, inner merge, inner
\* split, outer merge) outer_index_inner_ref and inner_ref_outer_index are
\* still None: the outer merge does not fill the inner maps again.
C34_InnerMapsStayCleared ==
  pc = "done" => ctx.outer_index_inner_ref = None /\ ctx.inner_ref_outer_index = None

InnerMergeStep == pc = "split1" /\ pc' = "inner"
InnerMutation == pc = "inner" /\ pc' = "inner"
\* C35: the descriptor of the outer split on a fresh context has outer_index
\* None on every NodeDef and VariableDef; the inner merge changes no object
\* that existed and returns a graph made of new objects only; and a mutation
\* of the inner copy changes no object of the original graph.
C35_InnerMergeAllocatesFresh ==
  /\ [](pc = "split1" => \A k \in 1..Len(Entries(graphdef)) :
                           Entries(graphdef)[k].d.tag \in {"NodeDef", "VariableDef"} => Entries(graphdef)[k].d.outer_index = None)
  /\ [][InnerMergeStep =>
          /\ \A id \in 1..Len(heap) : heap'[id] = heap[id]
          /\ \A id \in Reach(heap', node2'.id) : id > Len(heap)]_vars
  /\ [][InnerMutation => \A id \in Reach(heap, m) : heap'[id] = heap[id]]_vars

\* the inner copy of a graph of several objects, one of them a Variable
\* whose value was changed behind the boundary while the original kept its own
C35_Witness ==
  /\ pc = "inner" /\ ctx.outer_index_outer_ref # None
  /\ \E id \in Reach(heap, node2.id) :
       /\ heap[id].kind = "var" /\ id \in DOMAIN twin
       /\ heap[twin[id]].kind = "var" /\ heap[id].value # heap[twin[id]].value

(***************************************************************************)
(* The leaf cache under an update context: one node is flattened twice     *)
(* with one cache, while the context's inner_ref_outer_index is None       *)
(* (an outer split) or holds the objects of the graph (the inner split of  *)
(* a graph that an inner merge returned) (specification SpecCacheOuter).   *)
(***************************************************************************)
\* ctx.inner_ref_outer_index: None, or object -> index for every object of m
InnerRefOuterIndex(tagged) == IF tagged THEN Some(flatten(heap, m, <<>>, None, TRUE, FALSE).ref_index) ELSE None
\* what the flatten returned and left in the reference map
Returned(r) == [graphdef |-> r.graphdef, state |-> r.state, ref_index |-> r.ref_index, err |-> r.err]

\* split_ctx.flatten(m, with_paths=..., cache_context=cache), and beside it
\* the same flatten without a cache
CachedFlatten ==
  /\ pc \in {"build", "cached"}
  /\ \E tagged \in BOOLEAN, with_paths \in BOOLEAN :
       \E c \in {SplitContext_flatten(heap, m, <<>>, InnerRefOuterIndex(tagged), with_paths, Some(cache))} :
         \E u \in {SplitContext_flatten(heap, m, <<>>, InnerRefOuterIndex(tagged), with_paths, None)} :
           /\ outs' = <<Returned(c), Returned(u)>>
           /\ cache' = c.cache[1]
           /\ args' = [tagged |-> tagged, with_paths |-> with_paths, hit |-> c.hit]
           /\ err' = c.err
           /\ pc' = IF c.err # "" THEN "failed" ELSE IF pc = "build" THEN "cached" ELSE "cached again"
  /\ UNCHANGED <<heap, m, ctx, graphdef, state, node2, node3, fuel, refmap, idxmap, twin, fp, before, ins, GRAPH_CONTEXT, threads, registry>>

NextCacheOuter == Build \/ CachedFlatten

SpecCacheOuter == InitClone /\ [][NextCacheOuter]_vars

\* C36: SplitContext.flatten with a cache returns the descriptor (outer_index
\* fields included) and the leaves, and leaves the reference map, as
\* SplitContext.flatten without a cache does, also on a hit taken under
\* another inner_ref_outer_index than the one the entry was stored under.
C36_CachedFlattenEqualsUncached ==
  pc \in {"cached", "cached again"} => outs[1] = outs[2]

\* what holds: the two agree whenever the flatten is not a hit, and on a hit
\* they agree on everything but the outer_index fields
RECURSIVE WithoutOuterIndex(_)
WithoutOuterIndex(d) ==
  IF d.tag = "NodeDef"
  THEN [d EXCEPT !.outer_index = None,
                 !.attributes = [i \in 1..Len(d.attributes) |-> <<d.attributes[i][1], WithoutOuterIndex(d.attributes[i][2])>>]]
  ELSE IF d.tag = "VariableDef" THEN [d EXCEPT !.outer_index = None]
  ELSE d
CachedFlattenEqualsUpToOuterIndex ==
  pc \in {"cached", "cached again"} =>
    /\ ~args.hit => outs[1] = outs[2]
    /\ [outs[1] EXCEPT !.graphdef = WithoutOuterIndex(@)] = [outs[2] EXCEPT !.graphdef = WithoutOuterIndex(@)]

(***************************************************************************)
(* fingerprint against flatten (specification SpecCalls: the next argument *)
(* of a call and the reference map the arguments before it have filled).   *)
(***************************************************************************)
Restrict(f, S) == [x \in S |-> f[x]]

\* C37: started with the same reference map R, fingerprint puts into
\* new_ref_index exactly the entries that flatten adds to R, the same objects
\* with the same indices, and no Pytree Node is among them.
C37_FingerprintAndFlattenAgree ==
  pc = "flattening" /\ Len(outs) < Len(args.nodes) =>
    \A f \in {fingerprint(heap, NextArg, refmap, <<>>)} :
      \A r \in {flatten(heap, NextArg, refmap, None, TRUE, FALSE)} :
        /\ f.err = "" /\ r.err = ""
        /\ f.new_ref_index = Restrict(r.ref_index, DOMAIN r.ref_index \ DOMAIN refmap)
        /\ Restrict(r.ref_index, DOMAIN refmap) = refmap
        /\ \A id \in DOMAIN f.new_ref_index : heap[id].kind # "pytree"

\* the second argument of a call is next: the reference map holds the objects
\* of the first, a different node, and the second brings an object the map
\* does not hold and a Pytree Node
C37_Witness ==
  /\ pc = "flattening" /\ Len(outs) = 1 /\ refmap # <<>> /\ args.nodes[1] # args.nodes[2]
  /\ fingerprint(heap, NextArg, refmap, <<>>).new_ref_index # <<>>
  /\ \E id \in Reach(heap, NextArg) : heap[id].kind = "pytree"

(***************************************************************************)
(* flatten after unflatten (specification SpecClone).                      *)
(***************************************************************************)
\* the leaves in the form the state of the run has
InFormOf(st, r) ==
  IF st.form = "list" THEN ListState(r.leaves)
  ELSE IF st.form = "State" THEN StateFromFlatPath(FlatState(r.paths, r.leaves))
  ELSE FlatState(r.paths, r.leaves)

\* C38: flatten, with a fresh reference map, of the graph that unflatten built
\* from the descriptor and the leaves flatten returned gives an equal
\* descriptor and equal leaves at equal paths.
C38_DescriptorRoundTrip ==
  pc = "cloned" =>
    \A r \in {flatten(heap, node2.id, <<>>, None, state.form # "list", FALSE)} :
      \A o \in {flatten(heap, m, <<>>, None, TRUE, FALSE)} :
        \A c \in {flatten(heap, node2.id, <<>>, None, TRUE, FALSE)} :
          /\ r.err = "" /\ r.graphdef = graphdef
          /\ InFormOf(state, r) = state
          /\ c.paths = o.paths /\ c.leaves = o.leaves /\ c.graphdef = graphdef

\* the graph rebuilt has a tuple of two items, a Variable held twice and a
\* cycle
C38_Witness ==
  /\ pc = "cloned"
  /\ \E k \in 1..Len(Entries(graphdef)) : Entries(graphdef)[k].d.tag = "NodeRef"
  /\ \E id \in Reach(heap, node2.id) : heap[id].kind = "pytree" /\ Len(heap[id].items) = 2

(***************************************************************************)
(* The two lookups of a capability set (specification SpecRegistry):       *)
(* flatten asks get_node_impl with the object, unflatten asks              *)
(* get_node_impl_for_type with the type recorded in the NodeDef.           *)
(***************************************************************************)
GraphNodeImpl(reg, type) == [kind |-> "GraphNodeImpl", type |-> type, caps |-> reg.graph[type]]
PytreeNodeImpl(reg, type) == [kind |-> "PytreeNodeImpl", type |-> type, caps |-> reg.pytree[type]]
PYTREE_NODE_IMPL == [kind |-> "PytreeNodeImpl", type |-> "GenericPytree", caps |-> "generic"]
\* the types jax has a pytree registration for
JAX_PYTREE_REGISTRY == {"tuple"}

\* get_node_impl(x) for an object x of type node_type that is not a Variable
get_node_impl(reg, node_type) ==
  IF node_type \in DOMAIN reg.graph THEN Some(GraphNodeImpl(reg, node_type))
  ELSE IF node_type \in DOMAIN reg.pytree THEN Some(PytreeNodeImpl(reg, node_type))
  ELSE IF node_type \in JAX_PYTREE_REGISTRY THEN Some(PYTREE_NODE_IMPL)
  ELSE None

\* get_node_impl_for_type(x)
get_node_impl_for_type(reg, x) ==
  IF x = "GenericPytree" THEN Some(PYTREE_NODE_IMPL)
  ELSE IF x \in DOMAIN reg.pytree THEN Some(PytreeNodeImpl(reg, x))
  ELSE IF x \in DOMAIN reg.graph THEN Some(GraphNodeImpl(reg, x))
  ELSE None

\* unflatten of the NodeDef that flatten wrote for an object of type t looks
\* up the capability set flatten used
SameCapabilitySet(t) ==
  \A f \in {get_node_impl(registry, t)} :
    f # None => get_node_impl_for_type(registry, f[1].type) = f

InBothRegistries(t) == t \in DOMAIN registry.graph /\ t \in DOMAIN registry.pytree

\* C39: flatten and unflatten resolve a type to the same capability set, for
\* every object flatten accepts, and no type is registered both as a Graph
\* Node and as a Pytree Node.
C39_FlattenAndUnflattenResolveAlike ==
  \A t \in RegTypes : SameCapabilitySet(t) /\ ~InBothRegistries(t)

\* the two lookups agree for every type that is in one registry at most
ResolveAlikeUnlessInBoth ==
  \A t \in RegTypes : ~InBothRegistries(t) => SameCapabilitySet(t)

(***************************************************************************)
(* A split_context whose body raised (specification SpecThreads).          *)
(***************************************************************************)
\* the update context of the tag as thread t finds it in the stacks gc
TaggedContext(gc, tag) == current_update_context(gc, tag).ctx

\* an exception leaves the split_context(tag) of thread t, which was entered
\* on an update context that has seen no split and that the body left as it
\* was
FailedOuterSplit(t) ==
  /\ threads[t].exc # "" /\ InScope(threads[t], "split_context")
  /\ Innermost(t).tag # NoTag
  /\ TaggedContext(Innermost(t).saved, Innermost(t).tag) # None
  /\ TaggedContext(Innermost(t).saved, Innermost(t).tag)[1].outer_ref_outer_index = None
  /\ TaggedContext(Seen(t), Innermost(t).tag) = TaggedContext(Innermost(t).saved, Innermost(t).tag)
  /\ threads'[t].frames = Pop(threads[t].frames)

\* C40: when the body of split_context(tag) raises during what would be the
\* outer split, the tagged update context is left as it was before the scope
\* was entered: outer_ref_outer_index is still None.
C40_FailedSplitDoesNotAdvance ==
  [][\A t \in Threads :
       FailedOuterSplit(t) =>
         /\ TaggedContext(GRAPH_CONTEXT'[Local(t)], Innermost(t).tag) = TaggedContext(Innermost(t).saved, Innermost(t).tag)
         /\ TaggedContext(GRAPH_CONTEXT'[Local(t)], Innermost(t).tag)[1].outer_ref_outer_index = None]_vars

\* the finally clause pops the SplitContext of the failed scope and lets the
\* exception of the body pass
FailedSplitPopsItsContext ==
  [][\A t \in Threads :
       FailedOuterSplit(t) =>
         /\ GRAPH_CONTEXT'[Local(t)].ref_index_stack = Pop(Seen(t).ref_index_stack)
         /\ threads'[t].exc = threads[t].exc]_vars

====
